---------------------------- MODULE Spec2Model ----------------------------
(***************************************************************************)
(* A state-machine model of the palimpzest cache service                   *)
(* (datasources/datadirectory.py), of the filter operator that writes it   *)
(* (operators/physical.py) and of the code-synthesis convert operator      *)
(* (strategies/code_synthesis.py).                                         *)
(*                                                                         *)
(* Python dictionaries are functions with a finite domain; a record        *)
(* (DataRecord) is identified by its position in the source dataset.       *)
(***************************************************************************)
EXTENDS Integers, Sequences, FiniteSets, TLC

(***************************************************************************)
(* Bounds of the model.                                                    *)
(***************************************************************************)
\* number of records of the registered dataset a filter scans
SourceLen == 3
\* longest buffer an outside caller of appendCache builds
MaxBuf == 2

Keys == {"k1", "k2"}
Records == 1..SourceLen
\* the records an outside caller passes to appendCache
ApiRecords == {1, 2}
\* the processes that share one cache directory; each holds one DataDirectory
Procs == {"p1", "p2"}
MainProc == "p1"
\* the FilterCandidateOp iterations (one __iter__ call each)
Iters == {"i1", "i2"}
\* the threads that call openCache concurrently, and the process of each
Threads == {"t1", "t2", "t3"}
ProcOf(t) == IF t = "t3" THEN "p2" ELSE "p1"
\* the LLMConvertCodeSynthesis instances, their tactics and output fields
Ops == {"o1", "o2"}
Tactics == {"NONE", "SINGLE", "EXAMPLE_ENSEMBLE", "ADVICE_ENSEMBLE",
            "ADVICE_ENSEMBLE_WITH_VALIDATION"}
Fields == {"f1", "f2"}
\* number of records the convert operators are called on
MaxCalls == 4
\* most output records one bonded query returns for one input record
MaxCard == 1
\* number of logical nodes built
MaxNodes == 3
\* longest list of models a strategy is given
MaxModels == 2
\* how many times a key is claimed before the cache is no longer cleared, and
\* how many _DataDirectory objects are constructed over one directory
MaxClaims == 2
MaxInstances == 2

VARIABLES
    cache,        \* cache[p]: the keys of _DataDirectory._cache (key -> file name)
    tempCache,    \* tempCache[p]: _DataDirectory._tempCache, a dict key -> list
    disk,         \* the files <dir>/data/cache/<key>.cached: key -> pickle stream
    ret,          \* what the last cache call of an outside caller returned
                  \* ("True", "False", "None") or raised ("KeyError")
    claimed,      \* claimed[k]: how many openCache(k) calls returned True
    writes,       \* writes[k]: how many times the file of k was written
    appended,     \* appended[k]: the data of the appendCache(k, .) calls that
                  \* returned, in call order, since openCache(k) returned True
    iterPc,       \* iterPc[i]: "new", "running", "done" (StopIteration), "raised"
    iterKey,      \* iterKey[i]: targetCacheId of the operator iterated by i
    shouldCache,  \* shouldCache[i]: the local of FilterCandidateOp.__iter__
    pos,          \* pos[i]: how many source records the iteration has pulled
    out,          \* out[i]: the records the iteration has yielded
    tpc,          \* tpc[t]: where thread t stands inside openCache
    tkey,         \* tkey[t]: the cacheId thread t passed
    tret,         \* tret[t]: what openCache returned to thread t
    opLive,       \* opLive[o]: operator instance o has been constructed
    opTactic,     \* opTactic[o]: code_strategy of the instance's class
    opCap,        \* opCap[o]: self.cache_across_plans
    exemplars,    \* exemplars[o]: self.exemplars
    code_synthesized,        \* code_synthesized[o]: self.code_synthesized
    field_to_code_ensemble,  \* field_to_code_ensemble[o]: dict field -> ensemble
    synthFields,  \* synthFields[o]: the fields o itself synthesized code for
    cachedExemplars,  \* the cache namespace "codeExemplars": op id -> list
    cachedEnsembles,  \* the cache namespace "codeEnsembles": op id_field -> ensemble
    nCalls,       \* how many records the operators have been called on
    last,         \* what the last __call__ did
    heap,         \* the Dataset nodes built so far, in construction order
    sets,         \* the Set and ConcreteDataset objects (sets/sets.py) built so far
    lastTree,     \* the node of the last getLogicalTree call and what it returned
    registry,     \* _DataDirectory._registry: dataset name -> registered path
    lastCost,     \* the plan of the last estimateCost call and what it returned
    built,        \* the physical operator instances constructed so far
    iterOp,       \* iterOp[i]: the instance whose __iter__ made iteration i
    lastExpand,   \* the last strategy expansion: its arguments and what it returned
    lastConvert,  \* the last LLMBondedQueryConvert.convert: its queries and answers
    registryFile, \* data/cache/registry.pkl: whether it exists and what it holds
    instances     \* how many _DataDirectory objects were constructed over the directory

cacheVars == <<cache, tempCache, disk, ret, claimed, writes, appended>>
iterVars == <<iterPc, iterKey, shouldCache, pos, out>>
threadVars == <<tpc, tkey, tret>>
synthVars == <<opLive, opTactic, opCap, exemplars, code_synthesized,
               field_to_code_ensemble, synthFields, cachedExemplars,
               cachedEnsembles, nCalls, last>>
nodeVars == <<heap, sets, lastTree>>
costVars == <<registry, lastCost>>
planVars == <<heap, sets, lastTree, registry, lastCost>>
svcVars == <<lastConvert, registryFile, instances>>
execVars == <<built, iterOp, lastExpand, lastConvert, registryFile, instances>>
vars == <<cache, tempCache, disk, ret, claimed, writes, appended,
          iterPc, iterKey, shouldCache, pos, out, tpc, tkey, tret,
          opLive, opTactic, opCap, exemplars, code_synthesized,
          field_to_code_ensemble, synthFields, cachedExemplars,
          cachedEnsembles, nCalls, last, heap, sets, lastTree, registry,
          lastCost, built, iterOp, lastExpand, lastConvert, registryFile,
          instances>>

(***************************************************************************)
(* Dictionaries.                                                           *)
(***************************************************************************)
DictPut(d, k, v) == [x \in DOMAIN d \cup {k} |-> IF x = k THEN v ELSE d[x]]
DictDel(d, k) == [x \in DOMAIN d \ {k} |-> d[x]]
EmptyDict == [x \in {} |-> <<>>]

(***************************************************************************)
(* pickle.dump / pickle.load of a list of records.  The stream is the      *)
(* opcode sequence pickle writes for a list: EMPTY_LIST, then the items    *)
(* (one item followed by APPEND, several items between MARK and APPENDS),  *)
(* then STOP.  Loading runs pickle's stack machine over the stream.        *)
(***************************************************************************)
Tok(op, arg) == [op |-> op, arg |-> arg]

RECURSIVE PickleItems(_)
PickleItems(s) ==
    IF s = <<>> THEN <<>> ELSE <<Tok("OBJ", Head(s))>> \o PickleItems(Tail(s))

PickleDump(lst) ==
    <<Tok("EMPTY_LIST", 0)>>
    \o (IF Len(lst) = 0 THEN <<>>
        ELSE IF Len(lst) = 1 THEN PickleItems(lst) \o <<Tok("APPEND", 0)>>
        ELSE <<Tok("MARK", 0)>> \o PickleItems(lst) \o <<Tok("APPENDS", 0)>>)
    \o <<Tok("STOP", 0)>>

StackEntry(kind, val) == [kind |-> kind, val |-> val]
HasMark(stack) == \E m \in 1..Len(stack) : stack[m].kind = "mark"
TopMark(stack) ==
    CHOOSE m \in 1..Len(stack) :
        /\ stack[m].kind = "mark"
        /\ \A n \in (m + 1)..Len(stack) : stack[n].kind # "mark"

RECURSIVE Flatten(_)
Flatten(entries) ==
    IF entries = <<>> THEN <<>> ELSE Head(entries).val \o Flatten(Tail(entries))

Unreadable == [ok |-> FALSE, val |-> <<>>]

RECURSIVE PickleRun(_, _, _)
PickleRun(toks, i, stack) ==
    IF i > Len(toks) THEN Unreadable
    ELSE LET op == toks[i].op
             n == Len(stack)
         IN
         CASE op = "EMPTY_LIST" ->
                PickleRun(toks, i + 1, Append(stack, StackEntry("list", <<>>)))
           [] op = "OBJ" ->
                PickleRun(toks, i + 1, Append(stack, StackEntry("obj", <<toks[i].arg>>)))
           [] op = "MARK" ->
                PickleRun(toks, i + 1, Append(stack, StackEntry("mark", <<>>)))
           [] op = "APPEND" ->
                IF n < 2 \/ stack[n - 1].kind # "list" THEN Unreadable
                ELSE PickleRun(toks, i + 1,
                        Append(SubSeq(stack, 1, n - 2),
                               StackEntry("list", stack[n - 1].val \o stack[n].val)))
           [] op = "APPENDS" ->
                IF ~HasMark(stack) THEN Unreadable
                ELSE LET m == TopMark(stack) IN
                     IF m < 2 \/ stack[m - 1].kind # "list" THEN Unreadable
                     ELSE PickleRun(toks, i + 1,
                            Append(SubSeq(stack, 1, m - 2),
                                   StackEntry("list",
                                       stack[m - 1].val
                                       \o Flatten(SubSeq(stack, m + 1, n)))))
           [] op = "STOP" ->
                IF n = 0 THEN Unreadable ELSE [ok |-> TRUE, val |-> stack[n].val]
           [] OTHER -> Unreadable

PickleLoad(toks) == PickleRun(toks, 1, <<>>)

(***************************************************************************)
(* _DataDirectory: the lookups.                                            *)
(***************************************************************************)
\* a lookup that also sees the entries still being appended
hasCachedAnswerSeesOpen(p, k) == k \in cache[p] \/ k \in DOMAIN tempCache[p]

\* hasCachedAnswer(uniqName): uniqName in self._cache
hasCachedAnswer(p, k) == k \in cache[p]

\* getCachedResult(uniqName): None, or the records unpickled from the file
None == [found |-> FALSE, recs |-> <<>>]
getCachedResult(p, k) ==
    IF k \notin cache[p] THEN None
    ELSE [found |-> TRUE, recs |-> PickleLoad(disk[k]).val]

(***************************************************************************)
(* _DataDirectory: openCache, appendCache, closeCache as state changes.    *)
(***************************************************************************)
\* the test of openCache without its look at _cache
CanOpenTempOnly(p, k) == k \notin DOMAIN tempCache[p]

\* the test of openCache
CanOpen(p, k) == k \notin cache[p] /\ k \notin DOMAIN tempCache[p]

\* tempCache after self._tempCache[cacheId] = []
Opened(p, k) == [tempCache EXCEPT ![p] = DictPut(@, k, <<>>)]

\* an append that inserts at the front of the list
AppendedFront(p, k, r) == [tempCache EXCEPT ![p] = DictPut(@, k, <<r>> \o @[k])]

\* tempCache after self._tempCache[cacheId].append(data); the caller has
\* checked that the key is there (a missing key raises KeyError)
Appended(p, k, r) == [tempCache EXCEPT ![p] = DictPut(@, k, Append(@[k], r))]

\* a file is written and the key leaves _tempCache, and _cache forgets it
SealedForgets(p, k) ==
    /\ disk' = DictPut(disk, k, PickleDump(tempCache[p][k]))
    /\ tempCache' = [tempCache EXCEPT ![p] = DictDel(@, k)]
    /\ cache' = cache
    /\ writes' = [writes EXCEPT ![k] = @ + 1]

\* a closeCache without its `del self._tempCache[cacheId]`
SealedKeepsClaim(p, k) ==
    /\ disk' = DictPut(disk, k, PickleDump(tempCache[p][k]))
    /\ tempCache' = tempCache
    /\ cache' = [cache EXCEPT ![p] = @ \cup {k}]
    /\ writes' = [writes EXCEPT ![k] = @ + 1]

\* closeCache on a key of _tempCache: the file is written, the key leaves
\* _tempCache and enters _cache
Sealed(p, k) ==
    /\ disk' = DictPut(disk, k, PickleDump(tempCache[p][k]))
    /\ tempCache' = [tempCache EXCEPT ![p] = DictDel(@, k)]
    /\ cache' = [cache EXCEPT ![p] = @ \cup {k}]
    /\ writes' = [writes EXCEPT ![k] = @ + 1]

\* openCache(cacheId) called by an outside caller of process p
OpenCache(p, k) ==
    /\ IF CanOpen(p, k)
       THEN /\ tempCache' = Opened(p, k)
            /\ ret' = "True"
            /\ claimed' = [claimed EXCEPT ![k] = @ + 1]
            /\ appended' = [appended EXCEPT ![k] = <<>>]
       ELSE /\ ret' = "False"
            /\ UNCHANGED <<tempCache, claimed, appended>>
    /\ UNCHANGED <<cache, disk, writes, iterVars, threadVars, synthVars, execVars, planVars>>

\* appendCache(cacheId, data)
AppendCache(p, k, r) ==
    /\ IF k \in DOMAIN tempCache[p]
       THEN /\ Len(tempCache[p][k]) < MaxBuf
            /\ tempCache' = Appended(p, k, r)
            /\ appended' = [appended EXCEPT ![k] = Append(@, r)]
            /\ ret' = "None"
       ELSE /\ ret' = "KeyError"
            /\ UNCHANGED <<tempCache, appended>>
    /\ UNCHANGED <<cache, disk, claimed, writes, iterVars, threadVars, synthVars, execVars, planVars>>

\* a closeCache that opens the file for writing before it looks the key up:
\* a missing key then leaves an empty file behind
CloseCacheOpensFirst(p, k) ==
    /\ IF k \in DOMAIN tempCache[p]
       THEN Sealed(p, k) /\ ret' = "None"
       ELSE /\ ret' = "KeyError"
            /\ disk' = DictPut(disk, k, <<>>)
            /\ UNCHANGED <<cache, tempCache, writes>>
    /\ UNCHANGED <<claimed, appended, iterVars, threadVars, synthVars, execVars, planVars>>

\* closeCache(cacheId): self._tempCache[cacheId] is evaluated before the file
\* is opened, so a missing key raises KeyError and touches nothing
CloseCache(p, k) ==
    /\ IF k \in DOMAIN tempCache[p]
       THEN Sealed(p, k) /\ ret' = "None"
       ELSE ret' = "KeyError" /\ UNCHANGED <<cache, tempCache, disk, writes>>
    /\ UNCHANGED <<claimed, appended, iterVars, threadVars, synthVars, execVars, planVars>>

(***************************************************************************)
(* FilterCandidateOp over a MarshalAndScanDataOp source.  The key is the   *)
(* universalIdentifier of the logical node, a hash of its filters and its  *)
(* input, so the key decides the filter.                                   *)
(***************************************************************************)
\* the records of the registered dataset, in scan order
Source == [j \in 1..SourceLen |-> j]

\* _passesFilters(candidate) for the node whose identifier is k
PassesFilters(k, r) == IF k = "k1" THEN r # 2 ELSE r % 2 = 0

\* a loop that yields every record, whether or not it passes the filters
NextPassUnfiltered(k, from) ==
    IF from + 1 <= SourceLen THEN from + 1 ELSE 0

\* the loop of iteratorFn resumed after `from` source records: the position
\* of the next record that passes the filters, 0 when the source runs out
NextPass(k, from) ==
    LET hits == {j \in (from + 1)..SourceLen : PassesFilters(k, Source[j])}
    IN IF hits = {} THEN 0 ELSE CHOOSE j \in hits : \A h \in hits : j <= h

\* the complete output of the uncached plan of node k
PlanOutput(k) ==
    LET Keep(r) == PassesFilters(k, r) IN SelectSeq(Source, Keep)

\* FilterCandidateOp.__iter__ with targetCacheId k: openCache is called at
\* once, the generator body has not run yet
FilterIter(i, k) ==
    /\ iterPc[i] = "new"
    /\ iterPc' = [iterPc EXCEPT ![i] = "running"]
    /\ iterKey' = [iterKey EXCEPT ![i] = k]
    /\ shouldCache' = [shouldCache EXCEPT ![i] = CanOpen(MainProc, k)]
    /\ IF CanOpen(MainProc, k)
       THEN /\ tempCache' = Opened(MainProc, k)
            /\ claimed' = [claimed EXCEPT ![k] = @ + 1]
            /\ appended' = [appended EXCEPT ![k] = <<>>]
       ELSE UNCHANGED <<tempCache, claimed, appended>>
    /\ UNCHANGED <<cache, disk, ret, writes, pos, out, threadVars, synthVars, planVars>>

\* __iter__ of a filter over the registered dataset
Iter(i, k) == FilterIter(i, k) /\ UNCHANGED execVars

\* one next() on the generator of a filter: the loop runs to its next yield,
\* or to the end of the source, where closeCache is called whatever
\* shouldCache is
FilterNext(i) ==
    LET k == iterKey[i]
        j == NextPass(k, pos[i])
        held == k \in DOMAIN tempCache[MainProc]
    IN
    /\ iterPc[i] = "running"
    /\ IF j # 0
       THEN /\ pos' = [pos EXCEPT ![i] = j]
            /\ IF shouldCache[i] /\ ~held
               THEN \* appendCache raises KeyError
                    /\ iterPc' = [iterPc EXCEPT ![i] = "raised"]
                    /\ UNCHANGED <<tempCache, appended, out>>
               ELSE /\ tempCache' = IF shouldCache[i]
                                    THEN Appended(MainProc, k, Source[j])
                                    ELSE tempCache
                    /\ appended' = IF shouldCache[i]
                                   THEN [appended EXCEPT ![k] = Append(@, Source[j])]
                                   ELSE appended
                    /\ out' = [out EXCEPT ![i] = Append(@, Source[j])]
                    /\ UNCHANGED iterPc
            /\ UNCHANGED <<cache, disk, writes>>
       ELSE /\ pos' = [pos EXCEPT ![i] = SourceLen]
            /\ IF held
               THEN Sealed(MainProc, k) /\ iterPc' = [iterPc EXCEPT ![i] = "done"]
               ELSE \* closeCache raises KeyError
                    /\ iterPc' = [iterPc EXCEPT ![i] = "raised"]
                    /\ UNCHANGED <<cache, tempCache, disk, writes>>
            /\ UNCHANGED <<appended, out>>
    /\ UNCHANGED <<ret, claimed, iterKey, shouldCache, threadVars, synthVars, planVars>>

\* next() on a filter over the registered dataset
Pull(i) == FilterNext(i) /\ UNCHANGED execVars

\* the consumer stops pulling and drops the generator: the body has no
\* try/finally, so nothing runs
Abandon(i) ==
    /\ iterPc[i] = "running"
    /\ iterPc' = [iterPc EXCEPT ![i] = "abandoned"]
    /\ UNCHANGED <<cacheVars, iterKey, shouldCache, pos, out, threadVars, synthVars, execVars, planVars>>

(***************************************************************************)
(* openCache called from several threads and processes.  The method is     *)
(* two membership tests and a store with no lock around them: a thread     *)
(* may be suspended between any two of them.  Each process holds its own   *)
(* _cache and _tempCache; only the files are shared.                       *)
(***************************************************************************)
\* thread t enters openCache(k)
TCall(t, k) ==
    /\ tpc[t] = "idle"
    /\ tpc' = [tpc EXCEPT ![t] = "test1"]
    /\ tkey' = [tkey EXCEPT ![t] = k]
    /\ UNCHANGED <<cacheVars, iterVars, tret, synthVars, execVars, planVars>>

\* not cacheId in self._cache
TTest1(t) ==
    /\ tpc[t] = "test1"
    /\ IF tkey[t] \notin cache[ProcOf(t)]
       THEN tpc' = [tpc EXCEPT ![t] = "test2"] /\ UNCHANGED tret
       ELSE tpc' = [tpc EXCEPT ![t] = "returned"] /\ tret' = [tret EXCEPT ![t] = FALSE]
    /\ UNCHANGED <<cacheVars, iterVars, tkey, synthVars, execVars, planVars>>

\* not cacheId in self._tempCache
TTest2(t) ==
    /\ tpc[t] = "test2"
    /\ IF tkey[t] \notin DOMAIN tempCache[ProcOf(t)]
       THEN tpc' = [tpc EXCEPT ![t] = "store"] /\ UNCHANGED tret
       ELSE tpc' = [tpc EXCEPT ![t] = "returned"] /\ tret' = [tret EXCEPT ![t] = FALSE]
    /\ UNCHANGED <<cacheVars, iterVars, tkey, synthVars, execVars, planVars>>

\* self._tempCache[cacheId] = []; return True
TStore(t) ==
    /\ tpc[t] = "store"
    /\ tempCache' = Opened(ProcOf(t), tkey[t])
    /\ tpc' = [tpc EXCEPT ![t] = "returned"]
    /\ tret' = [tret EXCEPT ![t] = TRUE]
    /\ UNCHANGED <<cache, disk, ret, claimed, writes, appended, iterVars, tkey,
                   synthVars, execVars, planVars>>

\* a thread that holds the claim seals the key: closeCache(k)
TClose(t) ==
    /\ tpc[t] = "returned"
    /\ tret[t]
    /\ tkey[t] \in DOMAIN tempCache[ProcOf(t)]
    /\ Sealed(ProcOf(t), tkey[t])
    /\ tpc' = [tpc EXCEPT ![t] = "closed"]
    /\ UNCHANGED <<ret, claimed, appended, iterVars, tkey, tret, synthVars, execVars, planVars>>

(***************************************************************************)
(* LLMConvertCodeSynthesis.  The cache service (getCachedData and          *)
(* putCachedData) is a key-value store per namespace; get_op_id is shared  *)
(* by the instances of one operator class.                                 *)
(***************************************************************************)
\* the default arguments of _shouldSynthesize
NumExemplars == 1
CodeRegenerateFrequency == 200

FieldIdx(f) == IF f = "f1" THEN 1 ELSE 2

\* self.get_op_id()
get_op_id(o) == opTactic[o]
\* "_".join([self.get_op_id(), field_name])
EnsembleCacheId(o, f) == <<get_op_id(o), f>>

\* cache.getCachedData(namespace, id): the stored value, or None (found is FALSE)
getCachedData(store, id) ==
    IF id \in DOMAIN store THEN [found |-> TRUE, val |-> store[id]]
    ELSE [found |-> FALSE, val |-> <<>>]
\* cache.putCachedData(namespace, id, value)
putCachedData(store, id, value) == DictPut(store, id, value)

\* __init__: the exemplars the instance starts with
InitialExemplars(tactic, cap) ==
    LET got == getCachedData(cachedExemplars, tactic)
    IN IF cap /\ got.found /\ Len(got.val) > 0 THEN got.val ELSE <<>>

\* a test that forgets that code was synthesized
ShouldSynthesizeAgain(o) ==
    CASE opTactic[o] = "NONE" -> FALSE
      [] opTactic[o] = "SINGLE" -> Len(exemplars[o]) >= NumExemplars
      [] opTactic[o] = "EXAMPLE_ENSEMBLE" -> Len(exemplars[o]) > NumExemplars
      [] opTactic[o] = "ADVICE_ENSEMBLE" -> FALSE
      [] opTactic[o] = "ADVICE_ENSEMBLE_WITH_VALIDATION" ->
            Len(exemplars[o]) % CodeRegenerateFrequency = 0

\* _shouldSynthesize(), per subclass
ShouldSynthesize(o) ==
    CASE opTactic[o] = "NONE" -> FALSE
      [] opTactic[o] = "SINGLE" ->
            ~code_synthesized[o] /\ Len(exemplars[o]) >= NumExemplars
      [] opTactic[o] = "EXAMPLE_ENSEMBLE" ->
            IF Len(exemplars[o]) <= NumExemplars THEN FALSE
            ELSE ~code_synthesized[o]
      [] opTactic[o] = "ADVICE_ENSEMBLE" -> FALSE
      [] opTactic[o] = "ADVICE_ENSEMBLE_WITH_VALIDATION" ->
            Len(exemplars[o]) % CodeRegenerateFrequency = 0

\* _synthesize_field_code raises Exception("not implemented yet")
SynthesisRaises(o) == opTactic[o] = "ADVICE_ENSEMBLE_WITH_VALIDATION"

\* _synthesize_field_code: one function, prompted with the first exemplar
SynthesizeFieldCode(o, f) ==
    [field |-> f, from |-> SubSeq(exemplars[o], 1, NumExemplars)]

\* a lookup under the field name joined before the operator id, an id no
\* ensemble is stored under
FetchCachedCodeSwappedId(o, F) ==
    LET have == {f \in F : getCachedData(cachedEnsembles, <<f, get_op_id(o)>>).found}
    IN IF have = F
       THEN [f \in F |-> getCachedData(cachedEnsembles, <<f, get_op_id(o)>>).val]
       ELSE EmptyDict

\* _fetch_cached_code(fields_to_generate): the cached ensembles when every
\* field has one, {} otherwise
FetchCachedCode(o, F) ==
    LET have == {f \in F : getCachedData(cachedEnsembles, EnsembleCacheId(o, f)).found}
    IN IF have = F
       THEN [f \in F |-> getCachedData(cachedEnsembles, EnsembleCacheId(o, f)).val]
       ELSE EmptyDict

\* the exemplars harvested by one _bonded_query_fallback of call number n
Harvest(n, nOut) == [j \in 1..nOut |-> [rec |-> n, idx |-> j]]

RECURSIVE PutEnsembles(_, _, _)
PutEnsembles(store, o, ens) ==
    IF DOMAIN ens = {} THEN store
    ELSE LET f == CHOOSE x \in DOMAIN ens : TRUE
         IN PutEnsembles(putCachedData(store, EnsembleCacheId(o, f), ens[f]),
                         o, DictDel(ens, f))

NoCall == [op |-> "o1", fields |-> {}, path |-> "none", synth |-> FALSE,
           exec |-> {}, conv |-> {}, ok |-> {}, nEx |-> 0, ready |-> FALSE,
           held |-> FALSE, own |-> FALSE, cap |-> FALSE, cached |-> FALSE,
           nrec |-> 0]

\* the fields that get a conventional single-field query: those whose
\* ensemble was run and returned None
ConventionalFieldsAll(reached, ok) == reached
ConventionalFields(reached, ok) == reached \ ok

\* an operator instance is built: __init__
Construct(o, tactic, cap) ==
    /\ ~opLive[o]
    /\ opLive' = [opLive EXCEPT ![o] = TRUE]
    /\ opTactic' = [opTactic EXCEPT ![o] = tactic]
    /\ opCap' = [opCap EXCEPT ![o] = cap]
    /\ exemplars' = [exemplars EXCEPT ![o] = InitialExemplars(tactic, cap)]
    /\ code_synthesized' = [code_synthesized EXCEPT ![o] = FALSE]
    /\ field_to_code_ensemble' = [field_to_code_ensemble EXCEPT ![o] = EmptyDict]
    /\ UNCHANGED <<cacheVars, iterVars, threadVars, planVars, execVars, synthFields, cachedExemplars,
                   cachedEnsembles, nCalls, last>>

\* __call__(candidate): F is fields_to_generate, ok the fields for which
\* codeEnsembleExecution returns an answer, nOut the number of records the
\* bonded query returns
Call(o, F, ok, nOut) ==
    LET should == ShouldSynthesize(o)
        raises == should /\ SynthesisRaises(o)
        ens == IF should THEN [f \in F |-> SynthesizeFieldCode(o, f)]
               ELSE IF opCap[o] THEN FetchCachedCode(o, F)
               ELSE field_to_code_ensemble[o]
        bonded == DOMAIN ens = {}
        missing == F \ DOMAIN ens
        \* the loop over fields_to_generate stops at the first KeyError
        reached == {f \in F : \A g \in missing : FieldIdx(f) < FieldIdx(g)}
        fresh == Harvest(nCalls + 1, nOut)
        entry == [op |-> o, fields |-> F, synth |-> should,
                  nEx |-> Len(exemplars[o]),
                  ready |-> code_synthesized[o] /\ F \subseteq synthFields[o],
                  held |-> ~raises /\ F \subseteq DOMAIN ens,
                  own |-> code_synthesized[o],
                  cap |-> opCap[o],
                  cached |-> \A f \in F :
                      getCachedData(cachedEnsembles, EnsembleCacheId(o, f)).found]
    IN
    /\ opLive[o]
    /\ nCalls < MaxCalls
    /\ nCalls' = nCalls + 1
    /\ IF raises
       THEN /\ last' = entry @@ [path |-> "raised", exec |-> {}, conv |-> {},
                                         ok |-> {}, nrec |-> 0]
            /\ UNCHANGED <<exemplars, code_synthesized, field_to_code_ensemble,
                           synthFields, cachedExemplars, cachedEnsembles>>
       ELSE /\ code_synthesized' = [code_synthesized EXCEPT ![o] = @ \/ should]
            /\ synthFields' = [synthFields EXCEPT ![o] = IF should THEN @ \cup F ELSE @]
            /\ field_to_code_ensemble' = [field_to_code_ensemble EXCEPT ![o] = ens]
            /\ cachedEnsembles' = IF should /\ opCap[o]
                                  THEN PutEnsembles(cachedEnsembles, o, ens)
                                  ELSE cachedEnsembles
            /\ IF bonded
               THEN /\ exemplars' = [exemplars EXCEPT ![o] = @ \o fresh]
                    /\ cachedExemplars' =
                          IF opCap[o]
                          THEN putCachedData(cachedExemplars, get_op_id(o), fresh)
                          ELSE cachedExemplars
                    /\ last' = entry @@ [path |-> "bonded", exec |-> {},
                                         conv |-> {}, ok |-> {}, nrec |-> nOut]
               ELSE /\ UNCHANGED <<exemplars, cachedExemplars>>
                    /\ last' = entry @@
                          [path |-> IF missing = {} THEN "code" ELSE "raised",
                           exec |-> reached,
                           conv |-> ConventionalFields(reached, ok),
                           ok |-> reached \cap ok,
                           nrec |-> IF missing = {} THEN 1 ELSE 0]
    /\ UNCHANGED <<cacheVars, iterVars, threadVars, planVars, execVars, opLive, opTactic,
                   opCap>>


(***************************************************************************)
(* Logical nodes (sets.py).  A Dataset is built over a registered data     *)
(* source or over another Dataset; the combinators return a new Dataset    *)
(* whose source is the receiver.  heap[i] is the i-th object constructed;  *)
(* a source is the position of a node in the heap, or a data source name.  *)
(***************************************************************************)
DatasetNames == {"d1", "d2"}
FilterStrs == {"p", "q"}
PyNone == "None"
\* limit=None
NoLimit == -1
Limits == {1, 2}
\* a udf is a function object: the code it was defined with and where the
\* object lives.  UdfAddrs are two objects defined by the same code.
UdfAddrs == {1, 2}
NoUdf == [code |-> PyNone, addr |-> 0]
Udfs == {[code |-> "g", addr |-> a] : a \in UdfAddrs}
SourceNode(i) == [idx |-> i, name |-> PyNone]
SourceData(name) == [idx |-> 0, name |-> name]

\* Set.__init__ with the defaults of its keyword parameters
NewSet(source, schema) ==
    [source |-> source, schema |-> schema, desc |-> PyNone, filter |-> PyNone,
     udf |-> NoUdf, agg_func |-> PyNone, group_by |-> PyNone, limit |-> NoLimit,
     fnid |-> PyNone, cardinality |-> "ONE_TO_ONE", image_conversion |-> PyNone,
     depends_on |-> <<>>, nocache |-> FALSE]

\* JSON values: strings, numbers, null and dicts (a list of key/value pairs
\* in insertion order)
JStr(x) == [t |-> "str", s |-> x, n |-> 0, kids |-> <<>>]
JNum(x) == [t |-> "num", s |-> "", n |-> x, kids |-> <<>>]
JNull == [t |-> "null", s |-> "", n |-> 0, kids |-> <<>>]
JDict(pairs) == [t |-> "dict", s |-> "", n |-> 0, kids |-> pairs]
\* a list: the items in order
JList(items) == [t |-> "list", s |-> "", n |-> 0,
                 kids |-> [i \in 1..Len(items) |-> [k |-> "item", v |-> items[i]]]]
JOpt(x) == IF x = PyNone THEN JNull ELSE JStr(x)
\* repr(x) of a str or None: 'x' in quotes, or None
Repr(x) == IF x = PyNone THEN JStr("None")
           ELSE [t |-> "quoted", s |-> x, n |-> 0, kids |-> <<>>]
\* str(f) of a function object: "<function g at 0x...>"
StrFunction(f) == [t |-> "function", s |-> f.code, n |-> f.addr, kids |-> <<>>]

\* the dict keys the serializers write, in the order sort_keys=True puts them
SortedKeys == <<"agg_func", "basicElt", "cardinality", "depends_on", "desc",
                "filter", "filters", "fnid", "group_by", "image_conversion",
                "input", "limit", "schema", "source", "udf", "uniqName",
                "version">>

\* json.dumps(d, sort_keys=True): every dict is written in key order
RECURSIVE JsonDumps(_), DumpFrom(_, _), DumpItems(_, _)
DumpItems(kids, q) ==
    IF q > Len(kids) THEN <<>>
    ELSE <<[k |-> "item", v |-> JsonDumps(kids[q].v)]>> \o DumpItems(kids, q + 1)
DumpFrom(kids, q) ==
    IF q > Len(SortedKeys) THEN <<>>
    ELSE LET hits == {i \in 1..Len(kids) : kids[i].k = SortedKeys[q]}
         IN IF hits = {} THEN DumpFrom(kids, q + 1)
            ELSE <<[k |-> SortedKeys[q],
                    v |-> JsonDumps(kids[CHOOSE i \in hits : TRUE].v)]>>
                 \o DumpFrom(kids, q + 1)
JsonDumps(j) ==
    IF j.t = "dict" THEN JDict(DumpFrom(j.kids, 1))
    ELSE IF j.t = "list" THEN [j EXCEPT !.kids = DumpItems(j.kids, 1)]
    ELSE j

\* hashlib.sha256(...).hexdigest(): taken to be free of collisions
Sha256(x) == [sha256 |-> x]

\* DataSource.serialize()
DataSourceSerialize(name) == JDict(<<[k |-> "uniqName", v |-> JStr(name)]>>)
\* Schema.json_schema()
json_schema(schema) == JStr(schema)

\* a serialize that still writes depends_on
SerializeWithDependsOn(x, src) ==
    JDict(<<[k |-> "version", v |-> JStr("0.1")],
            [k |-> "schema", v |-> json_schema(x.schema)],
            [k |-> "source", v |-> src],
            [k |-> "desc", v |-> Repr(x.desc)],
            [k |-> "filter", v |-> JOpt(x.filter)],
            [k |-> "udf", v |-> IF x.udf = NoUdf THEN JNull ELSE StrFunction(x.udf)],
            [k |-> "agg_func", v |-> JOpt(x.agg_func)],
            [k |-> "fnid", v |-> JOpt(x.fnid)],
            [k |-> "cardinality", v |-> JStr(x.cardinality)],
            [k |-> "image_conversion", v |-> JOpt(x.image_conversion)],
            [k |-> "limit", v |-> IF x.limit = NoLimit THEN JNull ELSE JNum(x.limit)],
            [k |-> "group_by", v |-> JOpt(x.group_by)],
            [k |-> "depends_on",
             v |-> JList([q \in 1..Len(x.depends_on) |-> JStr(x.depends_on[q])])]>>)

\* the dict of Set.serialize for node x, given the dict of its source
SerializeWith(x, src) ==
    JDict(<<[k |-> "version", v |-> JStr("0.1")],
            [k |-> "schema", v |-> json_schema(x.schema)],
            [k |-> "source", v |-> src],
            [k |-> "desc", v |-> Repr(x.desc)],
            [k |-> "filter", v |-> JOpt(x.filter)],
            [k |-> "udf", v |-> IF x.udf = NoUdf THEN JNull ELSE StrFunction(x.udf)],
            [k |-> "agg_func", v |-> JOpt(x.agg_func)],
            [k |-> "fnid", v |-> JOpt(x.fnid)],
            [k |-> "cardinality", v |-> JStr(x.cardinality)],
            [k |-> "image_conversion", v |-> JOpt(x.image_conversion)],
            [k |-> "limit", v |-> IF x.limit = NoLimit THEN JNull ELSE JNum(x.limit)],
            [k |-> "group_by", v |-> JOpt(x.group_by)]>>)

\* a serialize that leaves the source out
SerializeOwn(h, i) == SerializeWith(h[i], JNull)

\* Set.serialize(): the node's parameters and, under "source", the
\* serialization of its source
RECURSIVE Serialize(_, _)
Serialize(h, i) ==
    SerializeWith(h[i],
        IF h[i].source.idx = 0 THEN DataSourceSerialize(h[i].source.name)
        ELSE Serialize(h, h[i].source.idx))

\* Set.universal_identifier()
universal_identifier(h, i) == Sha256(JsonDumps(Serialize(h, i)))

\* a combinator that also writes the new description into its receiver
AddNodeInPlace(h, recv, node) ==
    Append([i \in 1..Len(h) |-> IF i = recv THEN [h[i] EXCEPT !.desc = node.desc]
                                ELSE h[i]], node)
\* the object a constructor call returns joins the heap; recv, the receiver
\* of the combinator (0 for none), is left as it is
AddNode(h, recv, node) == Append(h, node)

\* Dataset(source=name, schema=schema)
Dataset_init(name, schema) ==
    /\ Len(heap) + Len(sets) < MaxNodes
    /\ heap' = AddNode(heap, 0, NewSet(SourceData(name), schema))
    /\ UNCHANGED <<cacheVars, iterVars, threadVars, synthVars, execVars, costVars, sets,
                   lastTree>>

\* the depends_on lists a node is given, as Dataset.__init__ keeps them:
\* None becomes [] and a str the list of that str
DependsLists == {<<>>, <<"a">>}

\* Dataset(source=name, schema=schema, depends_on=depends_on, nocache=nocache)
Dataset_new(name, schema, depends_on, nocache) ==
    /\ Len(heap) + Len(sets) < MaxNodes
    /\ heap' = AddNode(heap, 0,
          [NewSet(SourceData(name), schema) EXCEPT
              !.depends_on = depends_on, !.nocache = nocache])
    /\ UNCHANGED <<cacheVars, iterVars, threadVars, synthVars, execVars, costVars, sets,
                   lastTree>>

\* self.filter(f, depends_on=depends_on): the new node takes nocache from
\* its receiver
Dataset_filter_on(i, f, depends_on) ==
    /\ Len(heap) + Len(sets) < MaxNodes
    /\ heap' = AddNode(heap, i,
          [NewSet(SourceNode(i), heap[i].schema) EXCEPT
              !.desc = "Apply filter(s)", !.filter = f,
              !.depends_on = depends_on, !.nocache = heap[i].nocache])
    /\ UNCHANGED <<cacheVars, iterVars, threadVars, synthVars, execVars, costVars, sets,
                   lastTree>>

\* self.filter(f)
Dataset_filter(i, f) ==
    /\ Len(heap) + Len(sets) < MaxNodes
    /\ heap' = AddNode(heap, i,
          [NewSet(SourceNode(i), heap[i].schema) EXCEPT
              !.desc = "Apply filter(s)", !.filter = f])
    /\ UNCHANGED <<cacheVars, iterVars, threadVars, synthVars, execVars, costVars, sets,
                   lastTree>>

\* self.convert(output_schema, udf=udf)
Dataset_convert(i, schema, udf) ==
    /\ Len(heap) + Len(sets) < MaxNodes
    /\ heap' = AddNode(heap, i,
          [NewSet(SourceNode(i), schema) EXCEPT
              !.desc = "Convert to new schema", !.udf = udf,
              !.image_conversion = "False"])
    /\ UNCHANGED <<cacheVars, iterVars, threadVars, synthVars, execVars, costVars, sets,
                   lastTree>>

\* self.count() and self.average()
Dataset_aggregate(i, agg) ==
    /\ Len(heap) + Len(sets) < MaxNodes
    /\ heap' = AddNode(heap, i,
          [NewSet(SourceNode(i), "Number") EXCEPT
              !.desc = IF agg = "count" THEN "Count results" ELSE "Average results",
              !.agg_func = agg])
    /\ UNCHANGED <<cacheVars, iterVars, threadVars, synthVars, execVars, costVars, sets,
                   lastTree>>

\* self.groupby(groupby)
Dataset_groupby(i, sig) ==
    /\ Len(heap) + Len(sets) < MaxNodes
    /\ heap' = AddNode(heap, i,
          [NewSet(SourceNode(i), "Group") EXCEPT
              !.desc = "Group By", !.group_by = sig])
    /\ UNCHANGED <<cacheVars, iterVars, threadVars, synthVars, execVars, costVars, sets,
                   lastTree>>

\* self.limit(n)
Dataset_limit(i, n) ==
    /\ Len(heap) + Len(sets) < MaxNodes
    /\ heap' = AddNode(heap, i,
          [NewSet(SourceNode(i), heap[i].schema) EXCEPT
              !.desc = IF n = 1 THEN "LIMIT 1" ELSE "LIMIT 2", !.limit = n])
    /\ UNCHANGED <<cacheVars, iterVars, threadVars, synthVars, execVars, costVars, sets,
                   lastTree>>


(***************************************************************************)
(* Logical nodes of sets/sets.py: a ConcreteDataset is a registered        *)
(* dataset, a Set has an input and a list of filters.  sets[i] is the i-th *)
(* object constructed; input is its position in sets, 0 for none.          *)
(***************************************************************************)
\* Filter(filterCondition)
Filter(cond) == cond

\* ConcreteDataset.serialize()
ConcreteDataset_serialize(x) ==
    JDict(<<[k |-> "version", v |-> JStr("0.1")],
            [k |-> "desc", v |-> Repr(x.desc)],
            [k |-> "basicElt", v |-> Repr(x.basicElt)],
            [k |-> "uniqName", v |-> JStr(x.uniqName)]>>)

\* Set.serialize()
RECURSIVE Set_serialize(_, _)
Set_serialize(h, i) ==
    IF h[i].cls = "ConcreteDataset" THEN ConcreteDataset_serialize(h[i])
    ELSE JDict(<<[k |-> "version", v |-> JStr("0.1")],
                 [k |-> "desc", v |-> JOpt(h[i].desc)],
                 [k |-> "basicElt", v |-> json_schema(h[i].basicElt)],
                 [k |-> "filters",
                  v |-> JList([q \in 1..Len(h[i].filters) |-> JStr(h[i].filters[q])])],
                 [k |-> "input", v |-> Set_serialize(h, h[i].input)]>>)

\* Set.universalIdentifier()
universalIdentifier(h, i) == Sha256(JsonDumps(Set_serialize(h, i)))

\* the logical operators of a chain, the root of the tree first
NoId == Sha256(JNull)
BaseScan(elt, name) ==
    [op |-> "BaseScan", elt |-> elt, name |-> name, id |-> NoId, filters |-> <<>>]
CacheScan(elt, uid) ==
    [op |-> "CacheScan", elt |-> elt, name |-> PyNone, id |-> uid, filters |-> <<>>]
ConvertScan(elt) ==
    [op |-> "ConvertScan", elt |-> elt, name |-> PyNone, id |-> NoId, filters |-> <<>>]
FilteredScan(elt, filters, uid) ==
    [op |-> "FilteredScan", elt |-> elt, name |-> PyNone, id |-> uid,
     filters |-> filters]

\* a lookup that takes a claimed key for a cached answer
hasCachedAnswerOrClaim(p, k) == k \in cache[p] \/ k \in DOMAIN tempCache[p]
\* DataDirectory().hasCachedAnswer(uid), as getLogicalTree calls it
TreeCached(p, k) == hasCachedAnswer(p, k)

\* getLogicalTree(): the tree, and the nodes getLogicalTree was called on
RECURSIVE getLogicalTree(_, _)
getLogicalTree(h, i) ==
    IF h[i].cls = "ConcreteDataset"
    THEN [tree |-> <<BaseScan(h[i].basicElt, h[i].uniqName)>>, calls |-> {i}]
    ELSE LET uid == universalIdentifier(h, i)
             elt == h[i].basicElt
             same == elt = h[h[i].input].basicElt
             sub == getLogicalTree(h, h[i].input)
             nf == Len(h[i].filters)
         IN IF TreeCached(MainProc, uid)
            THEN [tree |-> <<CacheScan(elt, uid)>>, calls |-> {i}]
            ELSE IF nf >= 0 /\ ~same
            THEN [tree |-> <<FilteredScan(elt, h[i].filters, uid), ConvertScan(elt)>>
                           \o sub.tree,
                  calls |-> {i} \cup sub.calls]
            ELSE IF nf = 0 /\ ~same
            THEN [tree |-> <<ConvertScan(elt)>> \o sub.tree,
                  calls |-> {i} \cup sub.calls]
            ELSE IF nf >= 0 /\ same
            THEN [tree |-> <<FilteredScan(elt, h[i].filters, uid)>> \o sub.tree,
                  calls |-> {i} \cup sub.calls]
            ELSE [tree |-> sub.tree, calls |-> {i} \cup sub.calls]

NoTree == [node |-> 0, tree |-> <<>>, calls |-> {}]

\* ConcreteDataset(basicElt, uniqName)
ConcreteDataset_init(elt, name) ==
    /\ Len(heap) + Len(sets) < MaxNodes
    /\ sets' = AddNode(sets, 0,
          [cls |-> "ConcreteDataset", basicElt |-> elt, input |-> 0,
           desc |-> PyNone, filters |-> <<>>, uniqName |-> name])
    /\ UNCHANGED <<cacheVars, iterVars, threadVars, synthVars, execVars, costVars, heap,
                   lastTree>>

\* Set(basicElt, input=sets[i], filters=filters)
Set_init(elt, i, filters) ==
    /\ Len(heap) + Len(sets) < MaxNodes
    /\ sets' = AddNode(sets, 0,
          [cls |-> "Set", basicElt |-> elt, input |-> i, desc |-> PyNone,
           filters |-> filters, uniqName |-> PyNone])
    /\ UNCHANGED <<cacheVars, iterVars, threadVars, synthVars, execVars, costVars, heap,
                   lastTree>>

\* self.addFilter(f)
Set_addFilter(i, f) ==
    /\ Len(heap) + Len(sets) < MaxNodes
    /\ sets' = AddNode(sets, i,
          [cls |-> "Set", basicElt |-> sets[i].basicElt, input |-> i,
           desc |-> "Apply filter(s)", filters |-> <<f>>, uniqName |-> PyNone])
    /\ UNCHANGED <<cacheVars, iterVars, threadVars, synthVars, execVars, costVars, heap,
                   lastTree>>

\* self.addFilterStr(filterCondition)
Set_addFilterStr(i, cond) == Set_addFilter(i, Filter(cond))

\* a run of the plan of node i claims the node's identifier: the openCache
\* of FilterCandidateOp.__iter__ with targetCacheId = uid
Set_openCache(i) ==
    LET uid == universalIdentifier(sets, i) IN
    /\ sets[i].cls = "Set"
    /\ CanOpen(MainProc, uid)
    /\ tempCache' = Opened(MainProc, uid)
    /\ UNCHANGED <<cache, disk, ret, claimed, writes, appended, iterVars,
                   threadVars, synthVars, execVars, planVars>>

\* the run is exhausted: closeCache(uid) seals what it appended
Set_closeCache(i) ==
    LET uid == universalIdentifier(sets, i) IN
    /\ sets[i].cls = "Set"
    /\ uid \in DOMAIN tempCache[MainProc]
    /\ disk' = DictPut(disk, uid, PickleDump(tempCache[MainProc][uid]))
    /\ tempCache' = [tempCache EXCEPT ![MainProc] = DictDel(@, uid)]
    /\ cache' = [cache EXCEPT ![MainProc] = @ \cup {uid}]
    /\ UNCHANGED <<ret, claimed, writes, appended, iterVars, threadVars,
                   synthVars, execVars, planVars>>

\* sets[i].getLogicalTree()
Set_getLogicalTree(i) ==
    /\ lastTree' = [node |-> i] @@ getLogicalTree(sets, i)
    /\ UNCHANGED <<cacheVars, iterVars, threadVars, synthVars, execVars, costVars, heap, sets>>


(***************************************************************************)
(* Cost estimates of physical plans.  A plan is a leaf, a scan of a        *)
(* registered dataset or of a cached result, under a chain of filter and   *)
(* convert operators.  A registered path is modelled by the sizes of the   *)
(* files found there.  timePerElement is whole + num / (den * ScanRate)    *)
(* seconds, kept exact; the rounding of floats is not modelled, and the    *)
(* per-element scan time num / (den * ScanRate) is below one second.       *)
(***************************************************************************)
\* 1 / LOCAL_SCAN_TIME_PER_KB, times the 1024 bytes of a KB
ScanRate == 500 * 1024 * 1024
LOCAL_LLM_CONVERSION_TIME_PER_RECORD == 10
LOCAL_LLM_FILTER_TIME_PER_RECORD == 5
\* size = 100 * cardinality of CacheScanDataOp.estimateCost
CachedRecordSize == 100
FileSizes == {0, 2048}
DirListings == {<<>>, <<2048>>, <<2048, 0>>}

RECURSIVE SumSeq(_)
SumSeq(q) == IF q = <<>> THEN 0 ELSE q[1] + SumSeq(Tail(q))

\* an estimateCost call that raised
Raised == [raised |-> TRUE, cardinality |-> 0,
           timePerElement |-> [whole |-> 0, num |-> 0, den |-> 1],
           costPerElement |-> 0, startupTime |-> 0, startupCost |-> 0,
           bytesReadLocally |-> 0, bytesReadRemotely |-> 0]

\* the dict both scan operators return for a cardinality and a size; the
\* division size / float(cardinality) raises ZeroDivisionError
ScanEstimate(cardinality, size) ==
    IF cardinality = 0 THEN Raised
    ELSE [raised |-> FALSE, cardinality |-> cardinality,
          timePerElement |-> [whole |-> 0, num |-> size, den |-> cardinality],
          costPerElement |-> 0, startupTime |-> 0, startupCost |-> 0,
          bytesReadLocally |-> size, bytesReadRemotely |-> 0]

\* getCardinality(uniqName) and getSize(uniqName) of a registered dataset
getCardinality(name) ==
    IF registry[name].entry = "dir" THEN Len(registry[name].files) ELSE 1
getSize(name) == SumSeq(registry[name].files)

\* MarshalAndScanDataOp.estimateCost(); an unregistered name raises
MarshalAndScan_estimateCost(name) ==
    IF name \notin DOMAIN registry THEN Raised
    ELSE ScanEstimate(getCardinality(name), getSize(name))

\* CacheScanDataOp.estimateCost(); iterating the None that getCachedResult
\* returns for a key without a cached answer raises TypeError
CacheScan_estimateCost(k) ==
    IF ~getCachedResult(MainProc, k).found THEN Raised
    ELSE LET cardinality == Len(getCachedResult(MainProc, k).recs)
         IN ScanEstimate(cardinality, CachedRecordSize * cardinality)

\* an operator that adds nothing to the time of its source
OwnTimeNone(op) == 0
\* the per-record time constant of an operator
OwnTime(op) == IF op = "filter" THEN LOCAL_LLM_FILTER_TIME_PER_RECORD
               ELSE LOCAL_LLM_CONVERSION_TIME_PER_RECORD
\* selectivity = 1.0
Selectivity == 1

\* an estimate that reports no bytes read
ComposedNoBytes(op, inp) ==
    IF inp.raised THEN Raised
    ELSE [inp EXCEPT !.timePerElement.whole = @ + OwnTime(op),
                     !.bytesReadLocally = 0]
\* FilterCandidateOp.estimateCost() and InduceFromCandidateOp.estimateCost()
\* over inputCostEstimates = self.source.estimateCost()
Composed(op, inp) ==
    IF inp.raised THEN Raised
    ELSE [raised |-> FALSE,
          cardinality |-> Selectivity * inp.cardinality,
          timePerElement |-> [inp.timePerElement EXCEPT !.whole = OwnTime(op) + @],
          costPerElement |-> inp.costPerElement,
          startupTime |-> inp.startupTime,
          startupCost |-> inp.startupCost,
          bytesReadLocally |-> inp.bytesReadLocally,
          bytesReadRemotely |-> inp.bytesReadRemotely]

\* estimateCost() of a plan: what each operator returned, the leaf first
RECURSIVE EstimateChain(_)
EstimateChain(plan) ==
    IF plan.ops = <<>>
    THEN <<IF plan.leaf = "scan" THEN MarshalAndScan_estimateCost(plan.id)
           ELSE CacheScan_estimateCost(plan.id)>>
    ELSE LET n == Len(plan.ops)
             below == EstimateChain([plan EXCEPT !.ops = SubSeq(@, 1, n - 1)])
         IN Append(below, Composed(plan.ops[n], below[n]))

\* a < b for two times
TimeLess(a, b) ==
    \/ a.whole < b.whole
    \/ a.whole = b.whole /\ a.num * b.den < b.num * a.den

PlanOps == {<<>>, <<"filter">>, <<"convert">>, <<"filter", "convert">>,
            <<"convert", "filter">>}
Plans == [leaf : {"scan"}, id : DatasetNames, ops : PlanOps]
           \cup [leaf : {"cache"}, id : Keys, ops : PlanOps]
NoCost == [plan |-> [leaf |-> "none", id |-> "d1", ops |-> <<>>], est |-> <<>>]

\* registerLocalDirectory(path, uniqName), files the listing of path
\* pickle.dump(self._registry, open(.../data/cache/registry.pkl, "wb"))
NoFile == [exists |-> FALSE, reg |-> EmptyDict]
PickleDumpRegistry(reg) == [exists |-> TRUE, reg |-> reg]

registerLocalDirectory(name, files) ==
    /\ registry' = DictPut(registry, name, [entry |-> "dir", files |-> files])
    /\ registryFile' = PickleDumpRegistry(registry')
    /\ UNCHANGED <<cacheVars, iterVars, threadVars, synthVars, nodeVars, lastCost,
                   built, iterOp, lastExpand, lastConvert, instances>>

\* registerLocalFile(path, uniqName), size the length of the file
registerLocalFile(name, size) ==
    /\ registry' = DictPut(registry, name, [entry |-> "file", files |-> <<size>>])
    /\ registryFile' = PickleDumpRegistry(registry')
    /\ UNCHANGED <<cacheVars, iterVars, threadVars, synthVars, nodeVars, lastCost,
                   built, iterOp, lastExpand, lastConvert, instances>>

\* plan.estimateCost()
EstimateCost(plan) ==
    /\ lastCost' = [plan |-> plan, est |-> EstimateChain(plan)]
    /\ UNCHANGED <<cacheVars, iterVars, threadVars, synthVars, execVars, nodeVars, registry>>

(***************************************************************************)
(* Physical operator instances.  A FilterCandidateOp or an                 *)
(* InduceFromCandidateOp is constructed over a MarshalAndScanDataOp that   *)
(* names a dataset; __iter__ makes a generator, and the generator of the   *)
(* scan looks the dataset up in the registry when it is first advanced.    *)
(***************************************************************************)
OpIds == {"a", "b"}
NoOp == "none"
\* the listing of the directory whose files are the records of Source
RunListing == [j \in 1..SourceLen |-> 2048]

\* _attemptMapping(candidate, outputElementType): None for the records the
\* synthesized function cannot map
AttemptMapping(r) == r # 1

\* the loop of InduceFromCandidateOp's iteratorFn resumed after `from`
\* source records: the position of the next record that maps, 0 at the end
NextMapped(from) ==
    LET hits == {j \in (from + 1)..SourceLen : AttemptMapping(Source[j])}
    IN IF hits = {} THEN 0 ELSE CHOOSE j \in hits : \A h \in hits : j <= h

\* every record that maps, in source order
InduceOutput ==
    LET Keep(r) == AttemptMapping(r) IN SelectSeq(Source, Keep)

\* a lookup that finds every name
MissingNever(name) == FALSE
\* if not uniqName in self._registry: raise Exception(...)
Missing(name) == name \notin DOMAIN registry

\* FilterCandidateOp(outputElementType, MarshalAndScanDataOp(.., name),
\* filters, targetCacheId=k): the arguments are stored
FilterCandidateOp_init(x, name, k) ==
    /\ x \notin DOMAIN built
    /\ built' = DictPut(built, x, [kind |-> "filter", source |-> name, key |-> k])
    /\ UNCHANGED <<cacheVars, iterVars, threadVars, synthVars, planVars, svcVars, iterOp,
                   lastExpand>>

\* InduceFromCandidateOp(outputElementType, MarshalAndScanDataOp(.., name))
InduceFromCandidateOp_init(x, name) ==
    /\ x \notin DOMAIN built
    /\ built' = DictPut(built, x, [kind |-> "induce", source |-> name, key |-> PyNone])
    /\ UNCHANGED <<cacheVars, iterVars, threadVars, synthVars, planVars, svcVars, iterOp,
                   lastExpand>>

\* an __iter__ that drains its source into a list before it returns
InduceIterEager(i) ==
    /\ iterPc[i] = "new"
    /\ iterPc' = [iterPc EXCEPT ![i] = "running"]
    /\ pos' = [pos EXCEPT ![i] = SourceLen]
    /\ UNCHANGED <<cacheVars, iterKey, shouldCache, out, threadVars, synthVars,
                   planVars>>

\* InduceFromCandidateOp.__iter__: the generator is made, nothing runs
InduceIter(i) ==
    /\ iterPc[i] = "new"
    /\ iterPc' = [iterPc EXCEPT ![i] = "running"]
    /\ UNCHANGED <<cacheVars, iterKey, shouldCache, pos, out, threadVars, synthVars,
                   planVars>>

\* one next() on the generator of a convert: the loop runs to its next yield
\* or to the end of the source
InduceNext(i) ==
    LET j == NextMapped(pos[i])
    IN
    /\ iterPc[i] = "running"
    /\ IF j # 0
       THEN /\ pos' = [pos EXCEPT ![i] = j]
            /\ out' = [out EXCEPT ![i] = Append(@, Source[j])]
            /\ UNCHANGED iterPc
       ELSE /\ pos' = [pos EXCEPT ![i] = SourceLen]
            /\ iterPc' = [iterPc EXCEPT ![i] = "done"]
            /\ UNCHANGED out
    /\ UNCHANGED <<cacheVars, iterKey, shouldCache, threadVars, synthVars, planVars>>

\* iter(x) on a constructed operator
Op_iter(i, x) ==
    /\ x \in DOMAIN built
    /\ iterOp' = [iterOp EXCEPT ![i] = x]
    /\ UNCHANGED <<built, lastExpand, svcVars>>
    /\ IF built[x].kind = "filter" THEN FilterIter(i, built[x].key)
       ELSE InduceIter(i)

\* next() on the generator of iteration i.  The first next() starts the
\* generator of the scan, whose getRegisteredDataset raises when the name is
\* not in the registry; the exception ends the generator above it.
Op_next(i) ==
    /\ iterOp[i] # NoOp
    /\ iterPc[i] = "running"
    /\ UNCHANGED execVars
    /\ IF pos[i] = 0 /\ Missing(built[iterOp[i]].source)
       THEN /\ iterPc' = [iterPc EXCEPT ![i] = "raised"]
            /\ UNCHANGED <<cacheVars, iterKey, shouldCache, pos, out, threadVars,
                           synthVars, planVars>>
       ELSE IF built[iterOp[i]].kind = "filter" THEN FilterNext(i)
            ELSE InduceNext(i)

\* rmRegisteredDataset(uniqName); del raises KeyError on a missing name
rmRegisteredDataset(name) ==
    /\ name \in DOMAIN registry
    /\ registry' = DictDel(registry, name)
    /\ registryFile' = PickleDumpRegistry(registry')
    /\ UNCHANGED <<cacheVars, iterVars, threadVars, synthVars, nodeVars, lastCost,
                   built, iterOp, lastExpand, lastConvert, instances>>

\* the plan of a constructed operator, as estimateCost walks it
PlanOf(x) ==
    [leaf |-> "scan", id |-> built[x].source,
     ops |-> <<IF built[x].kind = "filter" THEN "filter" ELSE "convert">>]

(***************************************************************************)
(* Strategies (strategies/*.py).  __new__ of a strategy class returns the  *)
(* list of operator classes built for the models it is given.  A variant   *)
(* is the class it derives from and the models bound to it.                *)
(***************************************************************************)
\* the members of the Model enumeration: m1 and m2 have a model card, mv is
\* a vision model with a card, mx has no card
Models == {"m1", "m2", "mv", "mx"}
MODEL_CARDS == {"m1", "m2", "mv"}
getVisionModels == {"mv"}
getChampionModel == "m1"
getCodeChampionModel == "m2"
getConventionalFallbackModel == "m1"

\* the lists of at most MaxModels different models of S
ModelLists(S) ==
    {q \in UNION {[1..n -> S] : n \in 0..MaxModels} :
        \A a, b \in DOMAIN q : a # b => q[a] # q[b]}

\* an argument left at its default None, and one that is given
NoneList == [none |-> TRUE, list |-> <<>>]
Given(q) == [none |-> FALSE, list |-> q]

\* type(name, (base,), {...}): the class a variant derives from and the
\* attributes bound to it
Variant(base, model, code_synth_model, conventional_fallback_model) ==
    [base |-> base, model |-> model, code_synth_model |-> code_synth_model,
     conventional_fallback_model |-> conventional_fallback_model]

\* physical_op_class of the strategy classes
physical_op_class(cls) ==
    CASE cls = "ModelSelectionFilterStrategy" -> "LLMFilter"
      [] cls = "ModelSelectionConvertStrategy" -> "LLMConvertConventional"
      [] cls = "BondedQueryConvertStrategy" -> "LLMBondedQueryConvert"

\* code_strategy_map
code_strategy_map(tactic) ==
    CASE tactic = "NONE" -> "LLMConvertCodeSynthesisNone"
      [] tactic = "SINGLE" -> "LLMConvertCodeSynthesisSingle"
      [] tactic = "EXAMPLE_ENSEMBLE" -> "LLMConvertCodeSynthesisExampleEnsemble"
      [] tactic = "ADVICE_ENSEMBLE" -> "LLMConvertCodeSynthesisAdviceEnsemble"
      [] tactic = "ADVICE_ENSEMBLE_WITH_VALIDATION" ->
            "LLMConvertCodeSynthesisAdviceEnsembleValidation"

\* what __new__ gives back: the list it returns, or the ValueError it raises
Returned(ops) == [raised |-> FALSE, ops |-> ops]
ValueError == [raised |-> TRUE, ops |-> <<>>]

\* the loop of ModelSelectionStrategy.__new__ over the models left, acc the
\* return_operators so far
RECURSIVE ModelSelectionLoop(_, _, _, _)
ModelSelectionLoop(cls, models, enable_vision, acc) ==
    IF models = <<>> THEN Returned(acc)
    ELSE LET model == Head(models)
         IN IF model \notin MODEL_CARDS THEN ValueError
            ELSE IF ~enable_vision /\ model \in getVisionModels
            THEN ModelSelectionLoop(cls, Tail(models), enable_vision, acc)
            ELSE ModelSelectionLoop(cls, Tail(models), enable_vision,
                    Append(acc, Variant(physical_op_class(cls), model, PyNone, PyNone)))

\* the loop of BondedQueryStrategy.__new__
RECURSIVE BondedQueryLoop(_, _, _)
BondedQueryLoop(cls, models, acc) ==
    IF models = <<>> THEN Returned(acc)
    ELSE LET model == Head(models)
         IN IF model \notin MODEL_CARDS THEN ValueError
            ELSE BondedQueryLoop(cls, Tail(models),
                    Append(acc, Variant(physical_op_class(cls), model, PyNone, PyNone)))

\* an innermost loop that stops after its first fallback model
FallbackLoopFirstOnly(op_class, e, c, fallbacks) ==
    IF fallbacks = <<>> THEN <<>>
    ELSE <<Variant(op_class, e, c, fallbacks[1])>>
\* the innermost loop of CodeSynthesisConvertStrategy.__new__
FallbackLoop(op_class, e, c, fallbacks) ==
    [k \in 1..Len(fallbacks) |-> Variant(op_class, e, c, fallbacks[k])]

\* the loop over code_synth_models
RECURSIVE CodeSynthLoop(_, _, _, _)
CodeSynthLoop(op_class, e, synths, fallbacks) ==
    IF synths = <<>> THEN <<>>
    ELSE FallbackLoop(op_class, e, Head(synths), fallbacks)
            \o CodeSynthLoop(op_class, e, Tail(synths), fallbacks)

\* the loop over exemplar_generation_models
RECURSIVE ExemplarLoop(_, _, _, _)
ExemplarLoop(op_class, gens, synths, fallbacks) ==
    IF gens = <<>> THEN <<>>
    ELSE CodeSynthLoop(op_class, Head(gens), synths, fallbacks)
            \o ExemplarLoop(op_class, Tail(gens), synths, fallbacks)

\* an argument, or the one-model list that replaces None
OrDefault(arg, model) == IF arg.none THEN <<model>> ELSE arg.list

NoExpand == [strategy |-> "none", models |-> <<>>, enable_vision |-> TRUE,
             gens |-> NoneList, synths |-> NoneList, fallbacks |-> NoneList,
             tactic |-> "NONE", raised |-> FALSE, ops |-> <<>>]

\* ModelSelectionFilterStrategy(available_models), which passes
\* enable_vision=False, and ModelSelectionConvertStrategy(available_models,
\* enable_vision=...)
ModelSelectionStrategy_new(cls, available_models, enable_vision) ==
    /\ cls = "ModelSelectionFilterStrategy" => ~enable_vision
    /\ lastExpand' = ModelSelectionLoop(cls, available_models, enable_vision, <<>>)
                     @@ [NoExpand EXCEPT !.strategy = cls,
                                         !.models = available_models,
                                         !.enable_vision = enable_vision]
    /\ UNCHANGED <<cacheVars, iterVars, threadVars, synthVars, planVars, svcVars, built,
                   iterOp>>

\* BondedQueryConvertStrategy(available_models)
BondedQueryStrategy_new(cls, available_models) ==
    /\ lastExpand' = BondedQueryLoop(cls, available_models, <<>>)
                     @@ [NoExpand EXCEPT !.strategy = cls,
                                         !.models = available_models]
    /\ UNCHANGED <<cacheVars, iterVars, threadVars, synthVars, planVars, svcVars, built,
                   iterOp>>

\* CodeSynthesisConvertStrategy(exemplar_generation_models, code_synth_models,
\* conventional_fallback_models, code_synth_strategy=...)
CodeSynthesisConvertStrategy_new(gens, synths, fallbacks, code_synth_strategy) ==
    /\ lastExpand' =
          [NoExpand EXCEPT
              !.strategy = "CodeSynthesisConvertStrategy",
              !.gens = gens, !.synths = synths, !.fallbacks = fallbacks,
              !.tactic = code_synth_strategy,
              !.ops = ExemplarLoop(code_strategy_map(code_synth_strategy),
                                   OrDefault(gens, getChampionModel),
                                   OrDefault(synths, getCodeChampionModel),
                                   OrDefault(fallbacks, getConventionalFallbackModel))]
    /\ UNCHANGED <<cacheVars, iterVars, threadVars, synthVars, planVars, svcVars, built,
                   iterOp>>

\* ---------------------------------------------------------------------
\* LLMBondedQueryConvert.convert (strategies/bonded_query.py)
\* ---------------------------------------------------------------------

\* the field names a convert is asked for; "t" is a name of one character
ConvertFields == {"t", "f1", "f2"}
\* iterating a Python str yields its characters
IterStr(s) == IF s = "t" THEN <<"t">>
              ELSE IF s = "f1" THEN <<"f", "1">>
              ELSE <<"f", "2">>
\* every name a completion-service query can be asked for
QueryNames == ConvertFields \cup {"f", "1", "2"}
\* the lists of requested fields: one or two distinct names, in order
FieldLists == {<<a>> : a \in ConvertFields}
              \cup {l \in ConvertFields \X ConvertFields : l[1] # l[2]}
ListItems(l) == {l[i] : i \in 1..Len(l)}
\* an answer list: empty, or the one extracted value
AnswerLists(v) == {<<>>, <<v>>}

NoConvert == [fields |-> <<>>, bonded |-> EmptyDict, conv |-> EmptyDict,
              answers |-> EmptyDict, queries |-> <<>>, raised |-> FALSE]

\* self._dspy_generate_fields(content, prompt) with the prompt of all the
\* fields: one query
BondedQuery(fields) == [kind |-> "bonded", fields |-> fields]

\* LLMConvertConventional.convert(candidate_content, fields): one
\* single-field query per item of fields, the answers keyed by the items
ConventionalConvert(fields, conv) ==
    [answers |-> [n \in ListItems(fields) |-> conv[n]],
     queries |-> [i \in 1..Len(fields) |->
                     [kind |-> "conventional", fields |-> <<fields[i]>>]]]

\* the second argument of the fallback call: the loop variable field, a str
FallbackArg(field) == IterStr(field)

\* for field, values in json_answers.items(): if values == []: ...
RECURSIVE ConvertLoop(_, _, _, _)
ConvertLoop(fields, q, st, conv) ==
    IF q > Len(fields) \/ st.raised THEN st
    ELSE LET field == fields[q]
         IN IF st.answers[field] # <<>> THEN ConvertLoop(fields, q + 1, st, conv)
            ELSE LET r == ConventionalConvert(FallbackArg(field), conv)
                     \* json_answers[field] = field_answer[field]
                     st2 == IF field \in DOMAIN r.answers
                            THEN [st EXCEPT !.answers[field] = r.answers[field],
                                            !.queries = @ \o r.queries]
                            ELSE [st EXCEPT !.raised = TRUE,
                                            !.queries = @ \o r.queries]
                 IN ConvertLoop(fields, q + 1, st2, conv)

\* convert(candidate_content, fields): bonded is what parse_answer makes of
\* the bonded answer, conv what a single-field query answers for each name
LLMBondedQueryConvert_convert(fields, bonded, conv) ==
    /\ lastConvert' =
          ConvertLoop(fields, 1,
                      [fields |-> fields, bonded |-> bonded, conv |-> conv,
                       answers |-> bonded, queries |-> <<BondedQuery(fields)>>,
                       raised |-> FALSE], conv)
    /\ UNCHANGED <<cacheVars, iterVars, threadVars, synthVars, planVars, built,
                   iterOp, lastExpand, registryFile, instances>>

\* ---------------------------------------------------------------------
\* clearCache and the construction of a new _DataDirectory over the same
\* directory (datasources/datadirectory.py)
\* ---------------------------------------------------------------------

\* clearCache(): both tables are emptied and every file under data/cache is
\* removed, whatever its name
ClearCache(p) ==
    /\ \A k \in Keys : claimed[k] < MaxClaims
    /\ cache' = [cache EXCEPT ![p] = {}]
    /\ tempCache' = [tempCache EXCEPT ![p] = EmptyDict]
    /\ disk' = EmptyDict
    /\ registryFile' = NoFile
    /\ ret' = "None"
    /\ UNCHANGED <<claimed, writes, appended, iterVars, threadVars, synthVars,
                   planVars, built, iterOp, lastExpand, lastConvert, instances>>

\* a loader that finds no *.cached file
LoadCachedNone(files) == {}
\* the os.walk of __init__: every file <key>.cached enters _cache under <key>
LoadCached(files) == DOMAIN files

\* _DataDirectory(dir) in a new process over a directory that exists: the
\* registry is read from registry.pkl if that file is there, _cache lists
\* the *.cached files and _tempCache is empty
DataDirectory_init(p) ==
    /\ instances < MaxInstances
    /\ instances' = instances + 1
    /\ registry' = IF registryFile.exists THEN registryFile.reg ELSE EmptyDict
    /\ cache' = [cache EXCEPT ![p] = LoadCached(disk)]
    /\ tempCache' = [tempCache EXCEPT ![p] = EmptyDict]
    /\ ret' = "None"
    /\ UNCHANGED <<disk, claimed, writes, appended, iterVars, threadVars,
                   synthVars, nodeVars, lastCost, built, iterOp, lastExpand,
                   lastConvert, registryFile>>

Init ==
    /\ cache = [p \in Procs |-> {}]
    /\ tempCache = [p \in Procs |-> EmptyDict]
    /\ disk = EmptyDict
    /\ ret = "None"
    /\ claimed = [k \in Keys |-> 0]
    /\ writes = [k \in Keys |-> 0]
    /\ appended = [k \in Keys |-> <<>>]
    /\ iterPc = [i \in Iters |-> "new"]
    /\ iterKey = [i \in Iters |-> "k1"]
    /\ shouldCache = [i \in Iters |-> FALSE]
    /\ pos = [i \in Iters |-> 0]
    /\ out = [i \in Iters |-> <<>>]
    /\ tpc = [t \in Threads |-> "idle"]
    /\ tkey = [t \in Threads |-> "k1"]
    /\ tret = [t \in Threads |-> FALSE]
    /\ opLive = [o \in Ops |-> FALSE]
    /\ opTactic = [o \in Ops |-> "NONE"]
    /\ opCap = [o \in Ops |-> FALSE]
    /\ exemplars = [o \in Ops |-> <<>>]
    /\ code_synthesized = [o \in Ops |-> FALSE]
    /\ field_to_code_ensemble = [o \in Ops |-> EmptyDict]
    /\ synthFields = [o \in Ops |-> {}]
    /\ cachedExemplars = EmptyDict
    /\ cachedEnsembles = EmptyDict
    /\ nCalls = 0
    /\ last = NoCall
    /\ heap = <<>>
    /\ sets = <<>>
    /\ lastTree = NoTree
    /\ registry = EmptyDict
    /\ lastCost = NoCost
    /\ built = EmptyDict
    /\ iterOp = [i \in Iters |-> NoOp]
    /\ lastExpand = NoExpand
    /\ lastConvert = NoConvert
    /\ registryFile = PickleDumpRegistry(EmptyDict)
    /\ instances = 1

NextApi ==
    \E k \in Keys :
        \/ OpenCache(MainProc, k)
        \/ \E r \in ApiRecords : AppendCache(MainProc, k, r)
        \/ CloseCache(MainProc, k)

NextPull ==
    \E i \in Iters :
        \/ \E k \in Keys : Iter(i, k)
        \/ Pull(i)

NextFilter == NextPull \/ \E i \in Iters : Abandon(i)

NextConc ==
    \E t \in Threads :
        \/ \E k \in Keys : TCall(t, k)
        \/ TTest1(t)
        \/ TTest2(t)
        \/ TStore(t)
        \/ TClose(t)

NextDataset ==
    \/ \E name \in DatasetNames : Dataset_init(name, "A")
    \/ \E i \in 1..Len(heap) :
          \/ \E f \in FilterStrs : Dataset_filter(i, f)
          \/ \E udf \in Udfs \cup {NoUdf} : Dataset_convert(i, "B", udf)
          \/ \E agg \in {"count", "average"} : Dataset_aggregate(i, agg)
          \/ Dataset_groupby(i, "sig")
          \/ \E n \in Limits : Dataset_limit(i, n)

NextSets ==
    \/ ConcreteDataset_init("A", "d1")
    \/ \E i \in 1..Len(sets) :
          \/ \E elt \in {"A", "B"}, filters \in {<<>>, <<"p">>} :
                Set_init(elt, i, filters)
          \/ Set_addFilter(i, "q")
          \/ Set_addFilterStr(i, "q")
          \/ Set_openCache(i)
          \/ Set_closeCache(i)
          \/ Set_getLogicalTree(i)

\* the combinators of both families of nodes
NextCombinators ==
    \/ NextDataset
    \/ ConcreteDataset_init("A", "d1")
    \/ \E i \in 1..Len(sets) : Set_addFilter(i, "q") \/ Set_addFilterStr(i, "q")

\* datasets are registered under d1, results are cached under k1, and plans
\* over d1, d2, k1 and k2 are priced
NextCost ==
    \/ \E files \in DirListings : registerLocalDirectory("d1", files)
    \/ \E size \in FileSizes : registerLocalFile("d1", size)
    \/ OpenCache(MainProc, "k1")
    \/ \E r \in ApiRecords : AppendCache(MainProc, "k1", r)
    \/ CloseCache(MainProc, "k1")
    \/ \E plan \in Plans : EstimateCost(plan)

NextSynth ==
    \E o \in Ops :
        \/ \E tactic \in Tactics, cap \in BOOLEAN : Construct(o, tactic, cap)
        \/ \E F \in SUBSET Fields \ {{}}, ok \in SUBSET Fields, nOut \in 1..MaxCard :
              Call(o, F, ok, nOut)

\* strategies expanded over lists of models
NextStrategy ==
    \/ \E models \in ModelLists(Models), enable_vision \in BOOLEAN :
          \/ ModelSelectionStrategy_new("ModelSelectionFilterStrategy", models,
                                        enable_vision)
          \/ ModelSelectionStrategy_new("ModelSelectionConvertStrategy", models,
                                        enable_vision)
    \/ \E models \in ModelLists(Models) :
          BondedQueryStrategy_new("BondedQueryConvertStrategy", models)
    \/ \E gens \in {NoneList} \cup {Given(q) : q \in ModelLists({"m1", "m2"})},
          synths \in {NoneList} \cup {Given(q) : q \in ModelLists({"m1", "m2"})},
          fallbacks \in {NoneList} \cup {Given(q) : q \in ModelLists({"m1", "m2"})},
          tactic \in Tactics :
          CodeSynthesisConvertStrategy_new(gens, synths, fallbacks, tactic)

\* operators are constructed over d1 and d2, d1 is registered and removed,
\* and the operators are iterated and priced
NextRun ==
    \/ registerLocalDirectory("d1", RunListing)
    \/ rmRegisteredDataset("d1")
    \/ \E x \in OpIds, name \in DatasetNames :
          \/ \E k \in Keys : FilterCandidateOp_init(x, name, k)
          \/ InduceFromCandidateOp_init(x, name)
    \/ \E i \in Iters :
          \/ \E x \in OpIds : Op_iter(i, x)
          \/ Op_next(i)
    \/ \E x \in DOMAIN built : EstimateCost(PlanOf(x))

\* A dropped generator runs no code: to the cache an abandoned iteration is
\* one that is never pulled again, so Next leaves Abandon to SpecFilter.
NextBonded ==
    \E fields \in FieldLists :
        \E bonded \in [ListItems(fields) -> AnswerLists("b")] :
            \E answered \in SUBSET ConvertFields :
                LLMBondedQueryConvert_convert(fields, bonded,
                    [n \in QueryNames |-> IF n \in ConvertFields \ answered
                                          THEN <<>> ELSE <<"c">>])

NextIdent ==
    \/ \E name \in DatasetNames, depends_on \in DependsLists, nocache \in BOOLEAN :
          Dataset_new(name, "A", depends_on, nocache)
    \/ \E i \in 1..Len(heap), f \in FilterStrs, depends_on \in DependsLists :
          Dataset_filter_on(i, f, depends_on)

NextCacheApi == NextApi \/ ClearCache(MainProc)

\* the records appended under a key are numbered in the order of the appends
NextRestart ==
    \/ \E k \in Keys :
          \/ OpenCache(MainProc, k)
          \/ AppendCache(MainProc, k, Len(appended[k]) + 1)
          \/ CloseCache(MainProc, k)
    \/ ClearCache(MainProc)
    \/ DataDirectory_init(MainProc)

NextRegistry ==
    \/ \E name \in DatasetNames :
          \/ registerLocalFile(name, 2048)
          \/ registerLocalDirectory(name, RunListing)
    \/ ClearCache(MainProc)
    \/ DataDirectory_init(MainProc)
    \/ \E k \in Keys : OpenCache(MainProc, k) \/ CloseCache(MainProc, k)

Next == NextApi \/ NextPull

\* the cache calls of one DataDirectory, by outside callers and by filters
Spec == Init /\ [][Next]_vars
\* outside callers only
SpecApi == Init /\ [][NextApi]_vars
\* filter iterations only
SpecFilter == Init /\ [][NextFilter]_vars
\* openCache from the threads of two processes over one cache directory
SpecConc == Init /\ [][NextConc]_vars
\* the code-synthesis convert operators over one cache service
SpecSynth == Init /\ [][NextSynth]_vars
\* logical plans built through the Dataset combinators
SpecDataset == Init /\ [][NextDataset]_vars
\* Set nodes, runs that claim and seal their identifiers, and getLogicalTree
SpecSets == Init /\ [][NextSets]_vars
\* plans priced over the registry and the cache of one DataDirectory
SpecCost == Init /\ [][NextCost]_vars
\* nodes built through the combinators only
SpecCombinators == Init /\ [][NextCombinators]_vars
\* the strategy classes expanded
SpecStrategy == Init /\ [][NextStrategy]_vars
\* constructed operators iterated over the registry and the cache
SpecBonded == Init /\ [][NextBonded]_vars

\* the consumer keeps pulling every iteration it has started
SpecRunLive == Init /\ [][NextRun]_vars /\ \A i \in Iters : WF_vars(Op_next(i))

SpecIdent == Init /\ [][NextIdent]_vars

SpecCacheApi == Init /\ [][NextCacheApi]_vars

SpecRestart == Init /\ [][NextRestart]_vars

SpecRegistry == Init /\ [][NextRegistry]_vars

SpecRun == Init /\ [][NextRun]_vars

(***************************************************************************)
(* Properties of the cache service.                                        *)
(***************************************************************************)
IsPrefix(a, b) == Len(a) <= Len(b) /\ SubSeq(b, 1, Len(a)) = a

\* C1: only sealed entries are visible.  A key answers hasCachedAnswer, and
\* getCachedResult returns its records, only after a closeCache of the key has
\* completed; a key that is claimed and not yet closed is invisible whatever
\* has been appended to it.
C1_OnlySealedVisible ==
    \A k \in Keys :
        LET closed == writes[k] >= 1
            open == claimed[k] >= 1 /\ writes[k] = 0
        IN /\ hasCachedAnswer(MainProc, k) => closed
           /\ getCachedResult(MainProc, k).found =>
                 closed /\ PickleLoad(disk[k]).ok
           /\ open => /\ ~hasCachedAnswer(MainProc, k)
                      /\ getCachedResult(MainProc, k) = None

\* a claimed key with appended records that is invisible, beside a sealed
\* key that is visible
C1_Witness ==
    /\ claimed["k1"] = 1 /\ writes["k1"] = 0 /\ Len(appended["k1"]) >= 1
    /\ ~hasCachedAnswer(MainProc, "k1")
    /\ hasCachedAnswer(MainProc, "k2")
    /\ Len(getCachedResult(MainProc, "k2").recs) >= 1

\* C2: claiming is exactly-once.  No key is ever claimed twice; an openCache
\* on a key that is claimed or sealed, by an outside caller or by a filter's
\* __iter__, returns False and claims nothing; a sealed key stays sealed and
\* never goes back to the in-progress table.
C2_ClaimExactlyOnce ==
    [][\A k \in Keys :
          /\ claimed'[k] <= 1
          /\ (k \in cache[MainProc] \/ k \in DOMAIN tempCache[MainProc]) =>
                /\ OpenCache(MainProc, k) => ret' = "False"
                /\ \A i \in Iters : Iter(i, k) => ~shouldCache'[i]
                /\ claimed'[k] = claimed[k]
          /\ k \in cache[MainProc] =>
                k \in cache'[MainProc] /\ k \notin DOMAIN tempCache'[MainProc]
      ]_vars

\* no filter has run, one key is sealed and the other claimed, and the last
\* call was an openCache that returned False
C2_Witness ==
    /\ \A i \in Iters : iterPc[i] = "new"
    /\ "k1" \in cache[MainProc]
    /\ "k2" \in DOMAIN tempCache[MainProc]
    /\ claimed = [k \in Keys |-> 1]
    /\ ret = "False"

\* C3: the claim is atomic across threads and processes.  Of the openCache
\* calls on one key that have returned, at most one returned True, and when
\* every caller of a key has returned exactly one of them holds the claim.
C3_ClaimAtomic ==
    \A k \in Keys :
        LET callers == {t \in Threads : tpc[t] # "idle" /\ tkey[t] = k}
            back == {t \in callers : tpc[t] \in {"returned", "closed"}}
            winners == {t \in back : tret[t]}
        IN /\ Cardinality(winners) <= 1
           /\ (callers # {} /\ back = callers) => Cardinality(winners) = 1

\* C4: append-then-seal round trip.  Once a key is sealed, getCachedResult
\* yields exactly the records appended since the claim, in append order, and
\* every later read yields the same sequence.
C4_AppendSealRoundTrip ==
    [][\A k \in Keys :
          /\ k \in cache'[MainProc] =>
                /\ PickleLoad(disk'[k]).ok
                /\ getCachedResult(MainProc, k)' =
                      [found |-> TRUE, recs |-> appended'[k]]
          /\ k \in cache[MainProc] =>
                getCachedResult(MainProc, k)' = getCachedResult(MainProc, k)
      ]_vars

\* a key sealed after two different records, read back in append order, and
\* a key sealed with no record at all
C4_Witness ==
    /\ getCachedResult(MainProc, "k1") = [found |-> TRUE, recs |-> <<2, 1>>]
    /\ appended["k1"] = <<2, 1>>
    /\ getCachedResult(MainProc, "k2") = [found |-> TRUE, recs |-> <<>>]

(***************************************************************************)
(* Properties of the filter iterations.                                    *)
(***************************************************************************)
\* C5: losing the claim never affects filtering.  An iteration whose
\* openCache returned False yields the records of the plan in order, raises
\* no error, and when it ends it has yielded the complete plan output.
C5_LoserUnaffected ==
    \A i \in Iters :
        (iterPc[i] # "new" /\ ~shouldCache[i]) =>
            /\ iterPc[i] # "raised"
            /\ IsPrefix(out[i], PlanOutput(iterKey[i]))
            /\ iterPc[i] = "done" => out[i] = PlanOutput(iterKey[i])

\* C6: the claim winner caches exactly what it emits.  A winner consumed to
\* exhaustion, with no other iteration on its key, has yielded the source
\* records that pass the filters, in source order, and the sealed entry of
\* its key reads back as that same sequence.
C6_WinnerCachesOutput ==
    \A i \in Iters :
        ( /\ iterPc[i] = "done"
          /\ shouldCache[i]
          /\ \A j \in Iters \ {i} : iterPc[j] = "new" \/ iterKey[j] # iterKey[i] ) =>
            /\ out[i] = PlanOutput(iterKey[i])
            /\ getCachedResult(MainProc, iterKey[i]) =
                  [found |-> TRUE, recs |-> out[i]]

\* the winner on k1 is exhausted over the 3-record source: 2 records
\* yielded, 2 sealed, while another iteration runs on k2
C6_Witness ==
    /\ iterPc["i1"] = "done" /\ shouldCache["i1"] /\ iterKey["i1"] = "k1"
    /\ Len(out["i1"]) = 2
    /\ Len(getCachedResult(MainProc, "k1").recs) = 2
    /\ iterPc["i2"] = "running" /\ iterKey["i2"] = "k2"

\* C7: cache soundness under interleaving.  Whenever a key has a cached
\* answer, the sealed sequence is the complete output of the uncached plan of
\* its node.
C7_CacheSound ==
    \A k \in Keys :
        hasCachedAnswer(MainProc, k) =>
            getCachedResult(MainProc, k).recs = PlanOutput(k)

\* C8: at-most-once-cached.  The file of a key is written at most once; once
\* a key is sealed it stays sealed with the same stored content, and a
\* closeCache or appendCache on it raises and alters nothing.
C8_AtMostOnceCached ==
    [][\A k \in Keys :
          /\ writes'[k] <= 1
          /\ k \in cache[MainProc] =>
                /\ k \in cache'[MainProc]
                /\ disk'[k] = disk[k]
                /\ writes'[k] = writes[k]
                /\ CloseCache(MainProc, k) => ret' = "KeyError"
                /\ \A r \in ApiRecords :
                      AppendCache(MainProc, k, r) => ret' = "KeyError"
      ]_vars

\* a filter that held the claim found its key sealed by another caller: its
\* appendCache or closeCache raised, and the sealed content is as it was
C8_Witness ==
    \E i \in Iters :
        /\ iterPc[i] = "raised" /\ shouldCache[i]
        /\ iterKey[i] \in cache[MainProc]
        /\ writes[iterKey[i]] = 1
        /\ getCachedResult(MainProc, iterKey[i]).recs = appended[iterKey[i]]

(***************************************************************************)
(* Properties of the code-synthesis convert operator.                      *)
(***************************************************************************)
\* C9: zero exemplars means bonded fallback and no code.  A record processed
\* by an operator whose exemplar list is empty is answered by the bonded
\* fallback; synthesize_code_ensemble and codeEnsembleExecution are not run.
C9_ZeroExemplarsBonded ==
    (last.path # "none" /\ last.nEx = 0) =>
        /\ last.path = "bonded"
        /\ ~last.synth
        /\ last.exec = {}

\* C10: code replaces completion calls once ready.  A record processed after
\* the operator synthesized code for every requested field is answered by
\* code execution for every requested field: no bonded call is made, and a
\* field whose ensemble returned an answer gets no conventional query.
C10_CodeOnceReady ==
    (last.path # "none" /\ last.ready) =>
        /\ last.path = "code"
        /\ last.exec = last.fields
        /\ last.conv \cap last.ok = {}

\* a record answered from code for both fields by an operator that caches
\* across plans
C10_Witness ==
    /\ last.ready /\ last.path = "code"
    /\ last.fields = Fields /\ last.ok = Fields /\ last.conv = {}
    /\ opCap[last.op]

C12_ExemplarsAppendOnly ==
    [][\A id \in DOMAIN cachedExemplars :
          /\ id \in DOMAIN cachedExemplars'
          /\ IsPrefix(cachedExemplars[id], cachedExemplars'[id])
      ]_vars

\* C13: synthesized ensembles are shared by operator id and field.  An
\* instance that caches across plans, has not synthesized itself and finds a
\* cached ensemble for every requested field answers the record from that
\* code, with no bonded call and no synthesis; an instance that does not
\* cache across plans leaves the cache as it is.
C13_EnsemblesShared ==
    /\ (last.path # "none" /\ last.cap /\ ~last.own /\ last.cached) =>
            /\ last.path = "code"
            /\ ~last.synth
    /\ (\A o \in Ops : opLive[o] => ~opCap[o]) =>
            /\ cachedEnsembles = EmptyDict
            /\ cachedExemplars = EmptyDict

(***************************************************************************)
(* Properties of the logical nodes and their identifiers.                  *)
(***************************************************************************)
\* the parameters of a node other than its source
OwnParams(x) == [x EXCEPT !.source = SourceData(PyNone)]
\* equal parameters, a udf compared by the code that defines it
SameParams(x, y) ==
    /\ [OwnParams(x) EXCEPT !.udf = NoUdf] = [OwnParams(y) EXCEPT !.udf = NoUdf]
    /\ x.udf.code = y.udf.code

\* equal parameters at every level down to the same data source
RECURSIVE SameChain(_, _, _)
SameChain(h, a, b) ==
    /\ SameParams(h[a], h[b])
    /\ IF h[a].source.idx = 0 \/ h[b].source.idx = 0
       THEN h[a].source = h[b].source
       ELSE SameChain(h, h[a].source.idx, h[b].source.idx)

\* C14: identifier determinism.  Two chains with equal parameters at every
\* level over the same data source have equal identifiers, whichever objects
\* they were built from.
C14_IdentifierDeterminism ==
    \A a, b \in 1..Len(heap) :
        SameChain(heap, a, b) =>
            universal_identifier(heap, a) = universal_identifier(heap, b)

\* the dict a node's source serializes to
SourceSerialized(h, i) ==
    IF h[i].source.idx = 0 THEN DataSourceSerialize(h[i].source.name)
    ELSE Serialize(h, h[i].source.idx)

\* the value stored under key in a dict
JGet(j, key) ==
    LET hit == CHOOSE i \in 1..Len(j.kids) : j.kids[i].k = key IN j.kids[hit].v

\* C15: an identifier covers the node and its whole ancestor chain.  The
\* hashed text holds the serialization of the node's source, and two nodes
\* with equal own parameters whose sources serialize differently hash
\* different texts and get different identifiers.
C15_CoversAncestors ==
    \A a, b \in 1..Len(heap) :
        /\ JGet(JsonDumps(Serialize(heap, a)), "source") =
              JsonDumps(SourceSerialized(heap, a))
        /\ ( /\ OwnParams(heap[a]) = OwnParams(heap[b])
             /\ SourceSerialized(heap, a) # SourceSerialized(heap, b) ) =>
               /\ JsonDumps(Serialize(heap, a)) # JsonDumps(Serialize(heap, b))
               /\ universal_identifier(heap, a) # universal_identifier(heap, b)

\* two filters p stacked over d1: equal own parameters, different sources,
\* different identifiers; and two scans that differ in the dataset name only
C15_Witness ==
    /\ Len(heap) = 3
    /\ heap[2].filter = "p" /\ heap[2].source = SourceNode(1)
    /\ heap[3].filter = "p" /\ heap[3].source = SourceNode(2)
    /\ OwnParams(heap[2]) = OwnParams(heap[3])
    /\ universal_identifier(heap, 2) # universal_identifier(heap, 3)

\* some combinator is called on Dataset i, on Set i
DatasetCombinator(i) ==
    \/ \E f \in FilterStrs : Dataset_filter(i, f)
    \/ \E udf \in Udfs \cup {NoUdf} : Dataset_convert(i, "B", udf)
    \/ \E agg \in {"count", "average"} : Dataset_aggregate(i, agg)
    \/ Dataset_groupby(i, "sig")
    \/ \E n \in Limits : Dataset_limit(i, n)
SetCombinator(i) == Set_addFilter(i, "q") \/ Set_addFilterStr(i, "q")

\* C18: combinators never mutate their receiver.  Every step leaves each
\* node built so far, and its identifier, as it was, and the node a
\* combinator returns is a new one whose source is the receiver.
C18_ReceiverUnchanged ==
    [][ /\ \A i \in 1..Len(heap) :
              /\ heap'[i] = heap[i]
              /\ universal_identifier(heap', i) = universal_identifier(heap, i)
              /\ DatasetCombinator(i) =>
                    /\ Len(heap') = Len(heap) + 1
                    /\ heap'[Len(heap')].source = SourceNode(i)
        /\ \A i \in 1..Len(sets) :
              /\ sets'[i] = sets[i]
              /\ universalIdentifier(sets', i) = universalIdentifier(sets, i)
              /\ SetCombinator(i) =>
                    /\ Len(sets') = Len(sets) + 1
                    /\ sets'[Len(sets')].input = i
      ]_vars

\* one node is the source of two nodes built by different combinators
C18_Witness ==
    /\ Len(heap) >= 3
    /\ heap[2].source = SourceNode(1) /\ heap[3].source = SourceNode(1)
    /\ heap[2].filter = "p" /\ heap[3].limit = 1

\* C16: cache short-circuit during expansion.  getLogicalTree on a Set whose
\* identifier is sealed returns one CacheScan on that identifier and calls
\* getLogicalTree on no other node; an identifier that is only claimed does
\* not short-circuit; with no sealed entry the node is expanded over the
\* logical tree of its input, with targetCacheId the node's own identifier.
C16_CacheShortCircuit ==
    [][\A i \in 1..Len(sets) :
          (Set_getLogicalTree(i) /\ sets[i].cls = "Set") =>
              LET uid == universalIdentifier(sets, i)
                  sub == getLogicalTree(sets, sets[i].input)
                  t == lastTree'.tree
                  own == Len(t) - Len(sub.tree)
              IN IF hasCachedAnswer(MainProc, uid)
                 THEN /\ t = <<CacheScan(sets[i].basicElt, uid)>>
                      /\ lastTree'.calls = {i}
                 ELSE /\ own >= 0
                      /\ SubSeq(t, own + 1, Len(t)) = sub.tree
                      /\ \A q \in 1..own :
                            /\ t[q].op \in {"FilteredScan", "ConvertScan"}
                            /\ t[q].op = "FilteredScan" => t[q].id = uid
                      /\ lastTree'.calls = {i} \cup sub.calls
      ]_vars

\* a node whose identifier is only claimed is expanded, with its own
\* identifier as targetCacheId, over its sealed input, which short-circuits
C16_Witness ==
    /\ Len(sets) = 3
    /\ lastTree.node = 3 /\ sets[3].input = 2
    /\ universalIdentifier(sets, 3) \in DOMAIN tempCache[MainProc]
    /\ universalIdentifier(sets, 2) \in cache[MainProc]
    /\ lastTree.tree[1].op = "FilteredScan"
    /\ lastTree.tree[1].id = universalIdentifier(sets, 3)
    /\ lastTree.tree[Len(lastTree.tree)] =
          CacheScan(sets[2].basicElt, universalIdentifier(sets, 2))
    /\ lastTree.calls = {2, 3}

\* C17: no-op folding.  getLogicalTree on an uncached Set with no filters
\* returns the logical tree of its input when its schema equals the
\* input's, and that tree under one ConvertScan when the schema differs.
C17_NoOpFolded ==
    [][\A i \in 1..Len(sets) :
          ( /\ Set_getLogicalTree(i) /\ sets[i].cls = "Set"
            /\ sets[i].filters = <<>>
            /\ ~hasCachedAnswer(MainProc, universalIdentifier(sets, i)) ) =>
              LET sub == getLogicalTree(sets, sets[i].input) IN
              lastTree'.tree =
                 IF sets[i].basicElt = sets[sets[i].input].basicElt
                 THEN sub.tree
                 ELSE <<ConvertScan(sets[i].basicElt)>> \o sub.tree
      ]_vars

(***************************************************************************)
(* Properties of the cost estimates.                                       *)
(***************************************************************************)
\* C19: cost monotonicity along a plan.  For a plan source -> filter ->
\* convert that was priced, the cardinality does not grow and timePerElement
\* strictly increases at each step downstream.
C19_CostMonotone ==
    (lastCost.plan.ops = <<"filter", "convert">> /\ ~lastCost.est[3].raised) =>
        LET source == lastCost.est[1]
            filter == lastCost.est[2]
            convert == lastCost.est[3]
        IN /\ ~source.raised /\ ~filter.raised
           /\ convert.cardinality <= filter.cardinality
           /\ filter.cardinality <= source.cardinality
           /\ TimeLess(source.timePerElement, filter.timePerElement)
           /\ TimeLess(filter.timePerElement, convert.timePerElement)

\* a priced plan over a directory of two files, and one over a sealed entry
C19_Witness ==
    /\ lastCost.plan.ops = <<"filter", "convert">>
    /\ ~lastCost.est[3].raised
    /\ lastCost.est[1].cardinality = 2
    /\ lastCost.est[1].bytesReadLocally > 0
    /\ lastCost.est[3].timePerElement.whole = 15

\* C20: cost composition.  The estimate of a filter or convert operator is
\* its source's estimate with selectivity 1 applied to the cardinality and
\* the operator's own time constant (5 for a filter, 10 for a convert) added
\* to timePerElement, all other entries as the source's; the result is
\* decided by the source's estimate in the state of the call, which the call
\* leaves as it is, so a second call returns the same.
C20_CostComposition ==
    [][(lastCost' # lastCost /\ lastCost'.plan.ops # <<>>) =>
          \E plan \in Plans :
              /\ plan = lastCost'.plan
              /\ LET n == Len(plan.ops)
                     source == lastCost'.est[n]
                     top == lastCost'.est[n + 1]
                     own == IF plan.ops[n] = "filter" THEN 5 ELSE 10
                 IN
                 /\ EstimateCost(plan)
                 /\ source.raised => top.raised
                 /\ ~source.raised =>
                       /\ ~top.raised
                       /\ top.cardinality = 1 * source.cardinality
                       /\ top.timePerElement.whole = own + source.timePerElement.whole
                       /\ top.timePerElement.num = source.timePerElement.num
                       /\ top.timePerElement.den = source.timePerElement.den
                       /\ top.costPerElement = source.costPerElement
                       /\ top.startupTime = source.startupTime
                       /\ top.startupCost = source.startupCost
                       /\ top.bytesReadLocally = source.bytesReadLocally
                       /\ top.bytesReadRemotely = source.bytesReadRemotely
                 /\ source = EstimateChain([plan EXCEPT !.ops = SubSeq(@, 1, n - 1)])[n]
                 /\ lastCost'.est = EstimateChain(plan)
                 /\ UNCHANGED <<cache, tempCache, disk, registry>>
      ]_vars

\* a convert over a filter over a sealed entry of two records is priced
C20_Witness ==
    /\ lastCost.plan = [leaf |-> "cache", id |-> "k1", ops |-> <<"filter", "convert">>]
    /\ ~lastCost.est[3].raised
    /\ lastCost.est[3].cardinality = 2
    /\ lastCost.est[3].bytesReadLocally = 200
    /\ lastCost.est[3].timePerElement = [whole |-> 15, num |-> 200, den |-> 2]

\* C21: every candidate can be priced with non-negative numbers.  An
\* estimateCost call on a plan whose leaf scans a registered dataset, or a
\* sealed cache entry, returns a result, and its cardinality, timePerElement,
\* costPerElement, startupTime and startupCost are all non-negative.
C21_PricedNonNegative ==
    [][lastCost' # lastCost =>
          LET leaf == lastCost'.plan.leaf
              id == lastCost'.plan.id
              top == lastCost'.est[Len(lastCost'.est)]
          IN ( \/ leaf = "scan" /\ id \in DOMAIN registry
               \/ leaf = "cache" /\ hasCachedAnswer(MainProc, id) ) =>
                /\ ~top.raised
                /\ top.cardinality >= 0
                /\ top.timePerElement.whole >= 0
                /\ top.timePerElement.num >= 0
                /\ top.timePerElement.den > 0
                /\ top.costPerElement >= 0
                /\ top.startupTime >= 0
                /\ top.startupCost >= 0
      ]_vars

(***************************************************************************)
(* Properties of the strategies.                                           *)
(***************************************************************************)
\* a model a strategy can build a variant for: it has a model card, and it
\* is no vision model when vision is disabled
ValidModel(m, enable_vision) ==
    m \in MODEL_CARDS /\ (enable_vision \/ m \notin getVisionModels)

\* the models bound to the variants of a list, in order
VariantModels(ops) == [k \in 1..Len(ops) |-> ops[k].model]

\* the valid models of a list, in order
ValidOnes(models, enable_vision) ==
    LET Keep(m) == ValidModel(m, enable_vision) IN SelectSeq(models, Keep)

\* C22: invalid strategy/model combinations are excluded, not raised.  For
\* every list of models given to ModelSelectionStrategy or
\* BondedQueryStrategy, the expansion raises nothing and returns the variants
\* of the valid models only: a model without a model card, or a vision model
\* when vision is disabled, is left out.
C22_InvalidExcluded ==
    lastExpand.strategy \in {"ModelSelectionFilterStrategy",
                             "ModelSelectionConvertStrategy",
                             "BondedQueryConvertStrategy"} =>
        /\ ~lastExpand.raised
        /\ VariantModels(lastExpand.ops) =
              ValidOnes(lastExpand.models, lastExpand.enable_vision)

\* C23: strategy expansion is the full cross-product.
\* CodeSynthesisConvertStrategy returns as many variants as the product of
\* the lengths of its three lists of models (a list left at None counts as
\* its one default model), one for each triple, each derived from the class
\* the coding tactic maps to; a ModelSelectionStrategy that returns gives one
\* variant for each model that is not excluded, in the order of its input.
C23_CrossProduct ==
    /\ lastExpand.strategy = "CodeSynthesisConvertStrategy" =>
          LET gens == OrDefault(lastExpand.gens, "m1")
              synths == OrDefault(lastExpand.synths, "m2")
              fallbacks == OrDefault(lastExpand.fallbacks, "m1")
              ops == lastExpand.ops
              Triple(k) == <<ops[k].model, ops[k].code_synth_model,
                             ops[k].conventional_fallback_model>>
          IN /\ Len(ops) = Len(gens) * Len(synths) * Len(fallbacks)
             /\ \A a \in DOMAIN gens, b \in DOMAIN synths, c \in DOMAIN fallbacks :
                   Cardinality({k \in DOMAIN ops :
                       Triple(k) = <<gens[a], synths[b], fallbacks[c]>>}) = 1
             /\ \A k \in DOMAIN ops :
                   ops[k].base = code_strategy_map(lastExpand.tactic)
    /\ ( /\ lastExpand.strategy \in {"ModelSelectionFilterStrategy",
                                     "ModelSelectionConvertStrategy"}
         /\ ~lastExpand.raised ) =>
          /\ VariantModels(lastExpand.ops) =
                ValidOnes(lastExpand.models, lastExpand.enable_vision)
          /\ \A k \in DOMAIN lastExpand.ops :
                lastExpand.ops[k].base = physical_op_class(lastExpand.strategy)

\* a 2 x 2 x 2 expansion for the ensemble tactic, eight variants
C23_Witness ==
    /\ lastExpand.strategy = "CodeSynthesisConvertStrategy"
    /\ lastExpand.tactic = "EXAMPLE_ENSEMBLE"
    /\ Len(lastExpand.gens.list) = 2
    /\ Len(lastExpand.synths.list) = 2
    /\ Len(lastExpand.fallbacks.list) = 2
    /\ Len(lastExpand.ops) = 8

(***************************************************************************)
(* Properties of the operator instances and their iterations.              *)
(***************************************************************************)
\* iteration i has been made, and its generator has not been advanced over
\* a record yet
NotStarted(i) == iterOp[i] # NoOp /\ iterPc[i] = "running" /\ pos[i] = 0

\* C24: a missing dataset aborts the pipeline.  When the generator of a plan
\* whose scan names a dataset that is not in the registry is first advanced,
\* it raises: the operator above the scan has yielded no record and never
\* yields one, the step seals no cache entry, and an estimateCost call on
\* such a plan raises too.
C24_MissingDatasetAborts ==
    [][/\ \A i \in Iters :
             ( /\ NotStarted(i)
               /\ built[iterOp[i]].source \notin DOMAIN registry
               /\ <<iterPc[i], pos[i], out[i]>>' # <<iterPc[i], pos[i], out[i]>> ) =>
                 /\ iterPc'[i] = "raised"
                 /\ out'[i] = <<>>
                 /\ cache' = cache /\ disk' = disk /\ writes' = writes
       /\ \A i \in Iters :
             (iterPc[i] = "raised" /\ out[i] = <<>>) =>
                 (iterPc'[i] = "raised" /\ out'[i] = <<>>)
       /\ ( /\ lastCost' # lastCost
            /\ lastCost'.plan.leaf = "scan"
            /\ lastCost'.plan.id \notin DOMAIN registry ) =>
               \A n \in DOMAIN lastCost'.est : lastCost'.est[n].raised
      ]_vars

\* a filter over the unregistered d2 was iterated and advanced: it raised
\* with nothing yielded, its key is claimed and not sealed, and the estimate
\* of its plan raised, while d1 is registered
C24_Witness ==
    \E i \in Iters :
        /\ iterOp[i] # NoOp
        /\ built[iterOp[i]] = [kind |-> "filter", source |-> "d2", key |-> "k1"]
        /\ iterPc[i] = "raised" /\ out[i] = <<>>
        /\ "k1" \in DOMAIN tempCache[MainProc]
        /\ ~hasCachedAnswer(MainProc, "k1")
        /\ "d1" \in DOMAIN registry
        /\ lastCost.plan = [leaf |-> "scan", id |-> "d2", ops |-> <<"filter">>]
        /\ lastCost.est[2].raised

\* C25: pull on demand.  A filter or convert iteration that is running and
\* has yielded k records has pulled from its upstream exactly the records up
\* to the one that produced the k-th output: none before the first output is
\* asked for, and none beyond the record last yielded.  A claim winner has
\* appended to the cache exactly the records it has yielded.
C25_PullOnDemand ==
    \A i \in Iters :
        (iterOp[i] # NoOp /\ iterPc[i] = "running") =>
            /\ out[i] = <<>> => pos[i] = 0
            /\ out[i] # <<>> => Source[pos[i]] = out[i][Len(out[i])]
            /\ IF built[iterOp[i]].kind = "filter"
               THEN /\ out[i] = SubSeq(PlanOutput(iterKey[i]), 1, Len(out[i]))
                    /\ shouldCache[i] => appended[iterKey[i]] = out[i]
               ELSE out[i] = SubSeq(InduceOutput, 1, Len(out[i]))

\* a convert that skipped record 1 and yielded record 2 has pulled two
\* records of three; a winning filter on k2 has been made and not advanced
C25_Witness ==
    \E i, j \in Iters :
        /\ iterOp[i] # NoOp /\ built[iterOp[i]].kind = "induce"
        /\ iterPc[i] = "running" /\ out[i] = <<2>> /\ pos[i] = 2
        /\ iterOp[j] # NoOp /\ built[iterOp[j]].kind = "filter"
        /\ iterPc[j] = "running" /\ shouldCache[j] /\ iterKey[j] = "k2"
        /\ pos[j] = 0 /\ out[j] = <<>>
        /\ tempCache[MainProc]["k2"] = <<>>

C27_LoserLeavesCache ==
    [][\A i \in Iters :
          ( /\ iterPc[i] = "running" /\ ~shouldCache[i]
            /\ <<iterPc[i], pos[i], out[i]>>' # <<iterPc[i], pos[i], out[i]>> ) =>
              /\ tempCache' = tempCache
              /\ cache' = cache
              /\ disk' = disk
              /\ writes' = writes
      ]_vars

\* C28: the filter claims its key on construction.  Once a FilterCandidateOp
\* with targetCacheId K is constructed, and before it is iterated, K is
\* claimed: an openCache(K) by any other caller returns False.
C28_ClaimOnConstruction ==
    \A x \in DOMAIN built :
        ( /\ built[x].kind = "filter"
          /\ \A i \in Iters : iterOp[i] # x ) =>
            ~CanOpen(MainProc, built[x].key)

(***************************************************************************)
(* Properties of the synthesis state machine.                              *)
(***************************************************************************)
\* the step is a __call__ of operator o
CallBy(o) == nCalls' = nCalls + 1 /\ last'.op = o

\* C29: the synthesis state machine makes progress.  For the tactics SINGLE,
\* EXAMPLE_ENSEMBLE and ADVICE_ENSEMBLE, every bonded fallback adds at least
\* one exemplar, and a record processed by an operator that has no code yet
\* and holds more than one exemplar (the threshold of every tactic is then
\* reached) triggers synthesize_code_ensemble and leaves the operator with
\* code_synthesized set; for the tactic NONE no record triggers synthesis.
C29_SynthesisProgress ==
    [][\A o \in Ops :
          CallBy(o) =>
              /\ opTactic[o] \in {"SINGLE", "EXAMPLE_ENSEMBLE", "ADVICE_ENSEMBLE"} =>
                    /\ last'.path = "bonded" =>
                          Len(exemplars'[o]) > Len(exemplars[o])
                    /\ (~code_synthesized[o] /\ Len(exemplars[o]) > NumExemplars) =>
                          (last'.synth /\ code_synthesized'[o])
              /\ opTactic[o] = "NONE" => (~last'.synth /\ ~code_synthesized'[o])
      ]_vars

\* C30: synthesize-once tactics synthesize at most once.  Once an operator
\* of tactic SINGLE or EXAMPLE_ENSEMBLE has synthesized, code_synthesized
\* stays true and no later record triggers synthesize_code_ensemble,
\* whatever the code does on the record and however many exemplars are added.
C30_SynthesizeOnce ==
    [][\A o \in Ops :
          ( /\ opTactic[o] \in {"SINGLE", "EXAMPLE_ENSEMBLE"}
            /\ code_synthesized[o] ) =>
              /\ code_synthesized'[o]
              /\ opTactic'[o] = opTactic[o]
              /\ CallBy(o) => ~last'.synth
      ]_vars

\* an operator that had synthesized was called again, took the bonded path
\* and holds two exemplars or more: nothing was synthesized
C30_Witness ==
    \E o \in Ops :
        /\ opTactic[o] \in {"SINGLE", "EXAMPLE_ENSEMBLE"}
        /\ code_synthesized[o]
        /\ last.op = o /\ last.own /\ ~last.synth /\ last.path = "bonded"
        /\ Len(exemplars[o]) >= 2

\* C31: periodic re-synthesis cadence.  For an operator of tactic
\* ADVICE_ENSEMBLE_WITH_VALIDATION a record triggers synthesis exactly when
\* the number of exemplars held is a positive multiple of
\* code_regenerate_frequency, never before an exemplar exists, and each
\* trigger leaves a code ensemble for every requested field.
C31_ResynthesisCadence ==
    [][\A o \in Ops :
          (CallBy(o) /\ opTactic[o] = "ADVICE_ENSEMBLE_WITH_VALIDATION") =>
              /\ last'.synth <=>
                    ( /\ Len(exemplars[o]) > 0
                      /\ Len(exemplars[o]) % CodeRegenerateFrequency = 0 )
              /\ last'.synth =>
                    /\ last'.path # "raised"
                    /\ last'.fields \subseteq DOMAIN field_to_code_ensemble'[o]
      ]_vars

\* the conventional queries of the last convert that ask for field f alone
ConventionalFor(f) ==
    {i \in 1..Len(lastConvert.queries) :
        lastConvert.queries[i] = [kind |-> "conventional", fields |-> <<f>>]}

\* C32: convert issues one bonded query for all the requested fields, then
\* exactly one conventional query for each field whose bonded answer list is
\* empty, whose answer replaces that field's answer alone; a field with a
\* non-empty bonded answer keeps it and gets no query of its own, and an
\* empty answer never raises.
C32_PerFieldFallback ==
    lastConvert # NoConvert =>
        LET req == ListItems(lastConvert.fields)
            empty == {f \in req : lastConvert.bonded[f] = <<>>}
        IN /\ ~lastConvert.raised
           /\ lastConvert.queries[1] = BondedQuery(lastConvert.fields)
           /\ Len(lastConvert.queries) = 1 + Cardinality(empty)
           /\ \A f \in empty :
                 /\ Cardinality(ConventionalFor(f)) = 1
                 /\ lastConvert.answers[f] = lastConvert.conv[f]
           /\ \A f \in req \ empty :
                 /\ ConventionalFor(f) = {}
                 /\ lastConvert.answers[f] = lastConvert.bonded[f]

\* a started iteration is over: exhausted, or ended by an exception
Ended(i) == iterPc[i] \in {"done", "raised"}
\* every started iteration of a pulled consumer ends
PullTerminates == \A i \in Iters : (iterPc[i] = "running") ~> Ended(i)
\* a key is sealed only by the step in which the iteration that holds its
\* claim exhausts its upstream
SealedByHolder ==
    [][\A k \in Keys :
          (k \notin cache[MainProc] /\ k \in cache'[MainProc]) =>
              \A i \in Iters :
                  (iterPc[i] = "running" /\ iterKey[i] = k /\ shouldCache[i]) =>
                      iterPc'[i] = "done"
      ]_vars

\* C33: over a finite upstream and with a consumer that keeps pulling, an
\* iteration ends after finitely many steps, and the key of an iteration
\* that holds the claim is sealed at the moment that iteration exhausts its
\* upstream and not earlier.
C33_TerminatesAndSeals == PullTerminates /\ SealedByHolder

\* no key of the main process is in _cache and in _tempCache at once
ClaimedSealedDisjoint == cache[MainProc] \cap DOMAIN tempCache[MainProc] = {}
\* a key enters _cache out of _tempCache, and a key of _cache is not claimed
\* again while it is there
SealedFromClaimed ==
    [][\A k \in Keys :
          /\ (k \notin cache[MainProc] /\ k \in cache'[MainProc]) =>
                (k \in DOMAIN tempCache[MainProc] /\ k \notin DOMAIN tempCache'[MainProc])
          /\ k \in cache[MainProc] => k \notin DOMAIN tempCache'[MainProc]
      ]_vars

\* C34: in every state reached through openCache, appendCache, closeCache
\* and clearCache on one DataDirectory no key is both sealed (_cache) and in
\* progress (_tempCache); a key goes from in progress to sealed in closeCache
\* and never back.
C34_ClaimedSealedDisjoint == []ClaimedSealedDisjoint /\ SealedFromClaimed

\* one key was sealed, cleared and claimed again while another one is sealed
C34_Witness ==
    \E k \in Keys, k2 \in Keys :
        /\ k2 # k
        /\ writes[k] = 1 /\ claimed[k] = 2 /\ k \in DOMAIN tempCache[MainProc]
        /\ k2 \in cache[MainProc]

\* C38: a DataDirectory newly constructed over the same directory reports
\* hasCachedAnswer(K) exactly for the keys that were sealed and not cleared
\* when the previous instance ended, getCachedResult(K) yields the records
\* that were sealed, and a key that was claimed but not sealed can be
\* claimed again.
C38_SealedSurviveRestart ==
    [][instances' # instances =>
          \A k \in Keys :
              /\ hasCachedAnswer(MainProc, k)' <=> k \in cache[MainProc]
              /\ k \in cache[MainProc] =>
                    getCachedResult(MainProc, k)' = [found |-> TRUE, recs |-> appended[k]]
              /\ k \in DOMAIN tempCache[MainProc] => CanOpen(MainProc, k)'
      ]_vars

\* after a restart with no clearCache before it: one key sealed with records
\* in it, the other one claimed once, never sealed and free again
C38_Witness ==
    \E k \in Keys, k2 \in Keys :
        /\ k2 # k
        /\ instances = 2 /\ registryFile.exists
        /\ k \in cache[MainProc] /\ appended[k] # <<>>
        /\ claimed[k2] = 1 /\ writes[k2] = 0 /\ CanOpen(MainProc, k2)

\* C37: clearCache leaves the in-memory registry as it is, and a
\* DataDirectory newly constructed over the same directory loads the
\* datasets that were registered, whether or not clearCache was called
\* before: only a register call or a restart changes the registry, and a
\* restart loads the registry the previous instance had.
C37_ClearKeepsRegistry ==
    [][/\ registry' # registry =>
             (registryFile' = PickleDumpRegistry(registry') \/ instances' # instances)
       /\ instances' # instances => registry' = registry
      ]_vars

\* iteration i won the claim on its key and is no longer pulled, its key
\* still claimed and not sealed
AbandonedHolding(i) ==
    /\ iterPc[i] = "abandoned"
    /\ shouldCache[i]
    /\ iterKey[i] \in DOMAIN tempCache[MainProc]
    /\ ~hasCachedAnswer(MainProc, iterKey[i])

\* C35: the key of an iteration that won the claim and was abandoned before
\* its upstream was exhausted stays claimed and unsealed: hasCachedAnswer
\* stays false and openCache on it keeps returning False.
C35_AbandonedStaysClaimed ==
    [][\A i \in Iters :
          AbandonedHolding(i) =>
              /\ iterKey[i] \in DOMAIN tempCache'[MainProc]
              /\ ~hasCachedAnswer(MainProc, iterKey[i])'
              /\ ~CanOpen(MainProc, iterKey[i])'
      ]_vars

\* the part that holds: no later openCache on the key returns True
AbandonedNeverReopens ==
    [][\A i \in Iters : AbandonedHolding(i) => ~CanOpen(MainProc, iterKey[i])']_vars

\* C36: once an operator instance has answered a record by executing a code
\* ensemble, the next record it processes, whatever its field set, is
\* answered through code execution too and never through the bonded
\* fallback.
C36_CodeReadyNeverLeft ==
    [][\A o \in Ops :
          (last.op = o /\ last.path = "code" /\ CallBy(o)) => last'.path = "code"
      ]_vars

\* the same for a record that asks for the fields of the record before it
CodeReadyKeptSameFields ==
    [][\A o \in Ops :
          (last.op = o /\ last.path = "code" /\ CallBy(o) /\ last'.fields = last.fields)
              => last'.path = "code"
      ]_vars

\* nodes i and j are built over the same source with equal schema, desc,
\* filter, udf, agg_func, group_by, limit, fnid, cardinality and
\* image_conversion
SameButDependsAndNocache(i, j) ==
    [heap[i] EXCEPT !.depends_on = <<>>, !.nocache = FALSE]
        = [heap[j] EXCEPT !.depends_on = <<>>, !.nocache = FALSE]

\* C39: two nodes built over the same source with equal parameters, whatever
\* their depends_on lists and nocache flags, have the same
\* universal_identifier() and so name one cache entry.
C39_IdIgnoresDependsOn ==
    \A i \in 1..Len(heap), j \in 1..Len(heap) :
        SameButDependsAndNocache(i, j) =>
            universal_identifier(heap, i) = universal_identifier(heap, j)

\* two nodes equal in everything but their depends_on lists and their
\* nocache flags
C39_Witness ==
    \E i \in 1..Len(heap), j \in 1..Len(heap) :
        /\ SameButDependsAndNocache(i, j)
        /\ heap[i].depends_on # heap[j].depends_on
        /\ heap[i].nocache # heap[j].nocache
=============================================================================
